---------------------------- MODULE Spec2Model ----------------------------
(***************************************************************************)
(* Retrieval, ranking and fallback core of the Community Corrections RAG   *)
(* server: VectorService / DemoVectorService (cosine similarity, ranking), *)
(* RAGService.processQuery with the POST /api/chat/query route, and        *)
(* EnhancedRAGService.processQueryWithFallbacks.                            *)
(*                                                                         *)
(* Numbers.  A similarity is a JavaScript number.  It is modelled in       *)
(* thousandths (0.85 is 850, 0.7 is 700) next to the two non-numbers the   *)
(* code can produce, NaN and undefined.  Embedding vectors hold small      *)
(* integers.                                                               *)
(*                                                                         *)
(* Text.  A string the code searches with includes() is a sequence of      *)
(* units (words); toLowerCase() maps each unit through LowerOf and         *)
(* includes(k) holds when some unit equals k.  Answers and reasonings are  *)
(* plain strings built with \o.                                            *)
(***************************************************************************)
EXTENDS Integers, Sequences, FiniteSets, TLC

VARIABLES
  vectorChunks,   \* rows of the vector_chunks table, in row order
  chatMessages,   \* rows of the chat_messages table
  route,          \* the POST /api/chat/query request in flight
  enh,            \* the EnhancedRAGService.processQueryWithFallbacks call in flight
  pure,           \* harness of the pure functions: [op, in, out]
  documents,      \* rows of the documents table, in order of creation
  documentSeq,    \* last value of the serial documents.id
  chunkSeq,       \* number of chunk ids handed out so far
  proc            \* the POST /api/documents/:id/process request in flight

storeVars == <<documents, documentSeq, chunkSeq, proc>>

vars == <<vectorChunks, chatMessages, route, enh, pure, storeVars>>

-----------------------------------------------------------------------------
(* Bounds of the model *)

MaxChunks == 2       \* rows of vector_chunks in the server specification
MaxMessages == 1     \* chat messages stored before the model stops accepting queries
MaxRankChunks == 3   \* chunks handed to a ranking function
MaxTopK == 2         \* largest topK handed to a ranking function
MaxFuse == 5         \* longest ranked list of one category handed to the fusion
MaxVecLen == 3       \* longest vector handed to a cosine similarity

(* Program constants *)

FusionTopN == 8              \* .slice(0, 8)
DefaultTopK == 3             \* topK: number = 3 / transcriptTopK, policyTopK
VectorThreshold == 700       \* threshold: number = 0.7
EnhancedThreshold == 300     \* item.similarity >= 0.3
DemoThreshold == 10          \* threshold: number = 0.01
PlaceholderSimilarity == 850 \* similarity: 0.85
Scale == 10 * 10 * 10        \* a similarity is kept in thousandths

-----------------------------------------------------------------------------
(* JavaScript numbers *)

Num(v) == [kind |-> "number", v |-> v]
NaN == [kind |-> "NaN", v |-> 0]
Undefined == [kind |-> "undefined", v |-> 0]

IsNumber(x) == x.kind = "number"

\* x >= y of two JavaScript values: false as soon as one is NaN or undefined
JsGe(x, y) == IsNumber(x) /\ IsNumber(y) /\ x.v >= y.v

Min(a, b) == IF a <= b THEN a ELSE b

RECURSIVE SumSq(_)
SumSq(a) == IF a = <<>> THEN 0 ELSE Head(a) * Head(a) + SumSq(Tail(a))

RECURSIVE Dot(_, _)
Dot(a, b) ==
  IF a = <<>> \/ b = <<>> THEN 0 ELSE Head(a) * Head(b) + Dot(Tail(a), Tail(b))

\* The largest k in lo..hi with k * k * den <= num (bisection; lo satisfies it)
RECURSIVE Bisect(_, _, _, _)
Bisect(lo, hi, num, den) ==
  IF lo >= hi THEN lo
  ELSE LET mid == (lo + hi + 1) \div 2
       IN  IF mid * mid * den <= num THEN Bisect(mid, hi, num, den)
           ELSE Bisect(lo, mid - 1, num, den)

\* floor(Scale * |dot| / sqrt(na * nb)), at most Scale by Cauchy-Schwarz
RootFloor(dot, na, nb) == Bisect(0, Scale, dot * dot * Scale * Scale, na * nb)

\* dot / (sqrt(na) * sqrt(nb)) in thousandths, rounded down
Quotient(dot, na, nb) ==
  LET r == RootFloor(dot, na, nb)
      exact == r * r * na * nb = dot * dot * Scale * Scale
  IN  IF dot >= 0 THEN r ELSE IF exact THEN 0 - r ELSE 0 - (r + 1)

-----------------------------------------------------------------------------
(* Cosine similarity *)

\* a.reduce((sum, val, i) => sum + val * b[i], 0) is NaN once a is longer than b
\* (b[i] is undefined); the magnitudes run over each vector's own length.
VectorService_cosineSimilarity(a, b) ==
  LET dotIsNaN == Len(a) > Len(b)
      magnitudeA2 == SumSq(a)
      magnitudeB2 == SumSq(b)
  IN  IF magnitudeA2 = 0 \/ magnitudeB2 = 0 THEN Num(0)
      ELSE IF dotIsNaN THEN NaN
      ELSE Num(Quotient(Dot(a, b), magnitudeA2, magnitudeB2))

EnhancedRAGService_cosineSimilarity(a, b) ==
  LET dotIsNaN == Len(a) > Len(b)
      magnitudeA2 == SumSq(a)
      magnitudeB2 == SumSq(b)
  IN  IF magnitudeA2 = 0 \/ magnitudeB2 = 0 THEN Num(0)
      ELSE IF dotIsNaN THEN NaN
      ELSE Num(Quotient(Dot(a, b), magnitudeA2, magnitudeB2))

DemoVectorService_cosineSimilarity(a, b) ==
  IF Len(a) # Len(b) THEN Num(0)
  ELSE LET normA == SumSq(a)
           normB == SumSq(b)
       IN  IF normA > 0 /\ normB > 0
           THEN Num(Quotient(Dot(a, b), normA, normB))
           ELSE Num(0)

-----------------------------------------------------------------------------
(* Array helpers *)

\* Array.prototype.slice(0, end) for end >= 0
Slice(s, end) == SubSeq(s, 1, Min(end, Len(s)))

\* x goes behind every element whose similarity is at least its own
RECURSIVE InsertDesc(_, _)
InsertDesc(x, s) ==
  IF s = <<>> THEN <<x>>
  ELSE IF Head(s).similarity.v >= x.similarity.v
       THEN <<Head(s)>> \o InsertDesc(x, Tail(s))
       ELSE <<x>> \o s

\* .sort((a, b) => b.similarity - a.similarity): Array.prototype.sort is stable,
\* so equal similarities keep their order.  Every list the code sorts has been
\* filtered by a >= comparison before, hence holds numbers only.
RECURSIVE SortDescFrom(_, _)
SortDescFrom(s, i) ==
  IF i = 0 THEN <<>> ELSE InsertDesc(s[i], SortDescFrom(s, i - 1))

\* variant without the sort: C5 fails with it
Unsorted(s) == s

SortBySimilarityDesc(s) == SortDescFrom(s, Len(s))

WithSimilarity(chunk, sim) ==
  [id |-> chunk.id, text |-> chunk.text, embedding |-> chunk.embedding,
   metadata |-> chunk.metadata, similarity |-> sim]

\* variant without the filter on metadata.type: C6 fails with it
OfAnyType(chunks, type) == chunks

OfType(chunks, type) == SelectSeq(chunks, LAMBDA c : c.metadata.type = type)

-----------------------------------------------------------------------------
(* Ranking: VectorService, DemoVectorService, EnhancedRAGService *)

VectorService_findSimilarChunks(queryEmbedding, chunks, topK, threshold) ==
  LET similarities == [i \in 1..Len(chunks) |->
        WithSimilarity(chunks[i],
          VectorService_cosineSimilarity(queryEmbedding, chunks[i].embedding))]
  IN  Slice(SortBySimilarityDesc(
        SelectSeq(similarities, LAMBDA item : JsGe(item.similarity, Num(threshold)))),
        topK)

VectorService_findSimilarChunksByType(queryEmbedding, chunks, type, topK, threshold) ==
  LET filteredChunks == OfType(chunks, type)
  IN  VectorService_findSimilarChunks(queryEmbedding, filteredChunks, topK, threshold)

DemoVectorService_findSimilarChunks(queryEmbedding, chunks, topK, threshold) ==
  LET similarities == [i \in 1..Len(chunks) |->
        WithSimilarity(chunks[i],
          DemoVectorService_cosineSimilarity(queryEmbedding, chunks[i].embedding))]
  IN  Slice(SortBySimilarityDesc(
        SelectSeq(similarities, LAMBDA item : JsGe(item.similarity, Num(threshold)))),
        topK)

DemoVectorService_findSimilarChunksByType(queryEmbedding, chunks, type, topK, threshold) ==
  LET filteredChunks == OfType(chunks, type)
  IN  DemoVectorService_findSimilarChunks(queryEmbedding, filteredChunks, topK, threshold)

EnhancedRAGService_findSimilarChunksByType(queryEmbedding, chunks, type, topK) ==
  LET filteredChunks == OfType(chunks, type)
      similarities == [i \in 1..Len(filteredChunks) |->
        WithSimilarity(filteredChunks[i],
          EnhancedRAGService_cosineSimilarity(queryEmbedding, filteredChunks[i].embedding))]
  IN  Slice(SortBySimilarityDesc(
        SelectSeq(similarities,
               LAMBDA item : JsGe(item.similarity, Num(EnhancedThreshold)))),
        topK)

\* variant ranking each category with the default topK of findSimilarChunks (5)
\* instead of transcriptTopK and policyTopK: C36 fails with it
multiHopRetrieval_topFive(queryEmbedding, chunks) ==
  [transcriptChunks |-> VectorService_findSimilarChunksByType(
       queryEmbedding, chunks, "transcript", 5, VectorThreshold),
   policyChunks |-> VectorService_findSimilarChunksByType(
       queryEmbedding, chunks, "policy", 5, VectorThreshold),
   queryEmbedding |-> queryEmbedding]

\* The ranking half of multiHopRetrieval, once generateQueryEmbedding has answered
VectorService_multiHopRetrieval(queryEmbedding, chunks) ==
  [transcriptChunks |-> VectorService_findSimilarChunksByType(
       queryEmbedding, chunks, "transcript", DefaultTopK, VectorThreshold),
   policyChunks |-> VectorService_findSimilarChunksByType(
       queryEmbedding, chunks, "policy", DefaultTopK, VectorThreshold),
   queryEmbedding |-> queryEmbedding]

\* variant concatenating the policy chunks first: C7 fails with it
FusePolicyFirst(transcriptChunks, policyChunks) ==
  Slice(SortBySimilarityDesc(policyChunks \o transcriptChunks), FusionTopN)

\* [...transcriptChunks, ...policyChunks].sort(...).slice(0, 8)
FuseRanked(transcriptChunks, policyChunks) ==
  Slice(SortBySimilarityDesc(transcriptChunks \o policyChunks), FusionTopN)

-----------------------------------------------------------------------------
(* Text *)

ExcerptLimit == 300          \* chunk.text.length > 300 ? chunk.text.substring(0, 300) + "..."
CleanLimit == 200            \* cleanText.length > 200 ? cleanText.substring(0, 200) + "..."
EnhancedExcerptLimit == 200  \* chunk.text.substring(0, 200) + "..."
TopChunks == 5               \* relevantChunks.slice(0, 5)
DirectSources == 3           \* directRobertChunks.slice(0, 3)

Ellipsis == <<".", ".", ".">>

\* String.prototype.toLowerCase, unit by unit
LowerOf(u) ==
  CASE u = "Nathan" -> "nathan"
    [] u = "Robert" -> "robert"
    [] u = "Compare" -> "compare"
    [] OTHER -> u

Lower(text) == [i \in 1..Len(text) |-> LowerOf(text[i])]

\* the keywords of the code that are substrings of a longer unit
SubstringOf ==
  {<<"program", "programming">>, <<"transport", "transportation">>,
   <<"employ", "employment">>, <<"session", "sessions">>, <<"work", "working">>}

\* String.prototype.includes(k)
Includes(text, k) ==
  \E i \in 1..Len(text) : text[i] = k \/ <<k, text[i]>> \in SubstringOf

\* chunks.map(chunk => chunk.text).join(' ')
RECURSIVE JoinTexts(_)
JoinTexts(chunks) ==
  IF chunks = <<>> THEN <<>> ELSE Head(chunks).text \o JoinTexts(Tail(chunks))

\* ${n} in a template string is ToString(n) of the TLC module

Excerpt(text, limit) ==
  IF Len(text) > limit THEN SubSeq(text, 1, limit) \o Ellipsis ELSE text

\* the stretches the regular expressions of cleanSourceText delete
BoilerplateUnits == {"<processing note>", "<processing steps>"}

RECURSIVE TrimStart(_)
TrimStart(text) ==
  IF text # <<>> /\ Head(text) = " " THEN TrimStart(Tail(text)) ELSE text

RECURSIVE TrimEnd(_)
TrimEnd(text) ==
  IF text # <<>> /\ text[Len(text)] = " "
  THEN TrimEnd(SubSeq(text, 1, Len(text) - 1)) ELSE text

cleanSourceText(text) ==
  LET cleanText == TrimEnd(TrimStart(SelectSeq(text, LAMBDA u : u \notin BoilerplateUnits)))
  IN  Excerpt(cleanText, CleanLimit)

\* chunk.similarity: undefined on a chunk that was never given one
SimilarityOf(chunk) ==
  IF "similarity" \in DOMAIN chunk THEN chunk.similarity ELSE Undefined

Source(chunk, text) ==
  [documentName |-> chunk.metadata.documentName, chunkId |-> chunk.id, text |-> text,
   type |-> chunk.metadata.type, similarity |-> SimilarityOf(chunk)]

\* variant looking for the name in the chunk text only: C31 fails with it
Mentions_textOnly(chunk, name) == Includes(Lower(chunk.text), name)

\* chunk.text.toLowerCase().includes(name) ||
\* chunk.metadata.documentName.toLowerCase().includes(name)
Mentions(chunk, name) ==
  Includes(Lower(chunk.text), name) \/ Includes(Lower(chunk.metadata.documentName), name)

-----------------------------------------------------------------------------
(* RAGService: the content-analysis fallback *)

extractKeyInfo(chunks, query) ==
  LET content == Lower(JoinTexts(chunks))
      nathanSessions == SelectSeq(chunks,
        LAMBDA c : Includes(Lower(c.metadata.documentName), "nathan"))
      robertSessions == SelectSeq(chunks,
        LAMBDA c : Includes(Lower(c.metadata.documentName), "robert"))
  IN  IF Includes(query, "transport") \/ Includes(query, "travel")
      THEN IF Includes(content, "robert")
           THEN "Robert has mentioned transportation challenges related to getting to work and appointments. He has discussed issues with vehicle reliability and the impact on his job at the fencing company."
           ELSE "Transportation challenges have been discussed including difficulties with reliable transportation to work and appointments."
      ELSE IF Includes(query, "session") /\ Includes(query, "nathan")
      THEN "Nathan has had " \o ToString(Len(nathanSessions))
           \o " documented supervision sessions covering topics like financial stress, work situations, and coping strategies."
      ELSE IF Includes(query, "session") /\ Includes(query, "robert")
      THEN "Robert has had " \o ToString(Len(robertSessions))
           \o " documented supervision sessions discussing work progress, transportation, and compliance."
      ELSE IF Includes(query, "stress") \/ Includes(query, "anxiety")
      THEN IF Includes(content, "nathan")
           THEN "Nathan has discussed financial stress related to property taxes ($2,000 payment) and demonstrated positive coping strategies, saying 'there's nothing wrong with being stressed, that's part of life right? It's more of how you handle your stress.'"
           ELSE "Stress management and coping strategies have been important topics, including work-related stress and financial pressures."
      ELSE IF Includes(query, "work") \/ Includes(query, "employ")
      THEN IF Includes(content, "robert") /\ Includes(content, "nathan")
           THEN "Robert works for a fencing company and has been there about eight months with increasing responsibilities. Nathan has work-related financial stress but maintains employment. Both show different employment situations and challenges."
           ELSE IF Includes(content, "robert")
           THEN "Robert works for a fencing company, has been there about eight months, gets along well with his crew, and his boss is happy with his work. The physical demands help him stay focused."
           ELSE IF Includes(content, "nathan")
           THEN "Nathan has employment but faces financial stress including property tax obligations that impact his budget and stress levels."
           ELSE "Employment status and work situations have been regularly discussed, including job stability and workplace challenges."
      ELSE "Multiple aspects of supervision and personal challenges have been discussed across sessions."

extractPolicyInfo(chunks, query) ==
  IF Includes(query, "grievance") \/ Includes(query, "appeal")
  THEN IF Includes(query, "time") \/ Includes(query, "deadline")
       THEN "Grievance and appeal policy specifies: grievances must be submitted within 24 hours of incident using Form CC-101, Assistant Director conducts preliminary review within 72 hours, appeals filed within 5 business days, final appeal decisions issued within 15 business days."
       ELSE "The grievance and appeal policy establishes procedures for participants to file complaints using Form CC-101, with Assistant Director review and appeal processes to different supervisors."
  ELSE IF Includes(query, "program") \/ Includes(query, "treatment")
  THEN IF Includes(query, "substance") \/ Includes(query, "abuse")
       THEN "Programming requirements for substance abuse cases include: mandatory participation for those with substance abuse history, group therapy 3 times weekly, individual counseling weekly, plus employment preparation, life skills development, and educational programming."
       ELSE "Programming includes substance abuse treatment (group therapy, individual counseling), employment preparation (job readiness, resume building), life skills (financial literacy, anger management), and educational components (GED, vocational training). Minimum 6 hours weekdays, 4 hours weekends."
  ELSE IF Includes(query, "time") \/ Includes(query, "deadline")
  THEN "Policy timeframes include: grievances within 24 hours, preliminary review within 72 hours, appeals within 5 business days, final decisions within 15 business days. Programming requires 6 hours minimum weekdays, 4 hours weekends."
  ELSE IF Includes(query, "check") \/ Includes(query, "guideline")
  THEN "Check-in guidelines establish procedures for regular supervision contacts, documentation requirements, and compliance monitoring protocols."
  ELSE "The policy documents outline comprehensive procedures including grievance processes, programming requirements, intervention principles, and operational standards for Community Corrections."

extractTranscriptInfo(chunks, query) ==
  IF Includes(query, "compare") \/ Includes(query, "both")
  THEN "The transcripts show different individual situations and progress patterns across supervision sessions."
  ELSE IF Includes(query, "challenge") \/ Includes(query, "problem")
  THEN "Various challenges and obstacles have been discussed including personal, work-related, and compliance issues."
  ELSE "The supervision sessions document ongoing progress, challenges, and interactions between clients and case managers."

generateGenericResponse(query, chunks) ==
  IF Len(chunks) = 0
  THEN "I couldn't find specific information related to your query in the processed Community Corrections documents. Please ensure relevant documents have been uploaded and processed."
  ELSE LET transcriptCount == Len(OfType(chunks, "transcript"))
           policyCount == Len(OfType(chunks, "policy"))
       IN  IF Includes(query, "transport")
           THEN "Transportation issues have been documented in supervision sessions, including challenges with vehicle reliability and getting to work or appointments."
           ELSE IF Includes(query, "session") \/ Includes(query, "meeting")
           THEN "Based on the processed documents, there are multiple supervision sessions documented with ongoing progress reviews and case management interactions."
           ELSE IF Includes(query, "time") \/ Includes(query, "deadline")
           THEN "The Community Corrections policies specify various timeframes including 24-hour grievance submission, 72-hour reviews, 5-day appeal windows, and 15-day final decisions."
           ELSE IF Includes(query, "program") \/ Includes(query, "treatment")
           THEN "Programming requirements include substance abuse treatment, employment preparation, life skills development, and educational components with specific time commitments."
           ELSE IF Includes(query, "policy") \/ Includes(query, "procedure")
           THEN "The policy documents outline comprehensive procedures for grievances, appeals, programming, intervention principles, and operational standards."
           ELSE "Based on the available Community Corrections documents ("
                \o ToString(transcriptCount) \o " transcript sections, "
                \o ToString(policyCount)
                \o " policy sections), I found relevant content but need more specific context to provide a detailed answer."

NoRelevantResponse ==
  [answer |-> "I couldn't find any relevant information in the processed documents to answer your question.",
   sources |-> <<>>,
   reasoning |-> "No relevant chunks found with sufficient similarity to the query."]

NoDocumentsResponse ==
  [answer |-> "No documents have been indexed yet. Please upload and process some documents first.",
   sources |-> <<>>,
   reasoning |-> "No vector data available for retrieval."]

RAGService_generateContentAnalysisResponse(query, relevantChunks) ==
  LET queryLower == Lower(query)
      sources == [i \in 1..Len(relevantChunks) |->
        Source(relevantChunks[i], Excerpt(relevantChunks[i].text, ExcerptLimit))]
      topChunks == Slice(relevantChunks, TopChunks)
      transcriptChunks == OfType(topChunks, "transcript")
      policyChunks == OfType(topChunks, "policy")
      directNathanChunks == SelectSeq(relevantChunks, LAMBDA c : Mentions(c, "nathan"))
      directRobertChunks == SelectSeq(relevantChunks, LAMBDA c : Mentions(c, "robert"))
      Pushed(direct) ==
        LET first == Slice(direct, DirectSources)
        IN  sources \o [i \in 1..Len(first) |->
                          Source(first[i], cleanSourceText(first[i].text))]
      robertInfo == SelectSeq(transcriptChunks,
                              LAMBDA c : Includes(Lower(c.text), "robert"))
      nathanInfo == SelectSeq(transcriptChunks,
                              LAMBDA c : Includes(Lower(c.text), "nathan"))
      Result(answer, reasoning) ==
        [answer |-> answer, sources |-> sources, reasoning |-> reasoning]
  IN  IF Len(relevantChunks) = 0 THEN NoRelevantResponse
      ELSE IF Includes(queryLower, "robert") /\ Len(directRobertChunks) > 0
      THEN [answer |-> "Based on Robert's supervision sessions: "
                       \o extractKeyInfo(directRobertChunks, queryLower),
            sources |-> Pushed(directRobertChunks),
            reasoning |-> "Direct content analysis of Robert's transcript chunks."]
      ELSE IF Includes(queryLower, "nathan") /\ Len(directNathanChunks) > 0
      THEN [answer |-> "Based on Nathan's supervision sessions: "
                       \o extractKeyInfo(directNathanChunks, queryLower),
            sources |-> Pushed(directNathanChunks),
            reasoning |-> "Direct content analysis of Nathan's transcript chunks."]
      ELSE IF /\ Includes(queryLower, "compare")
              /\ (Includes(queryLower, "robert") \/ Includes(queryLower, "nathan"))
      THEN IF Len(robertInfo) > 0 \/ Len(nathanInfo) > 0
           THEN Result("Comparing Robert and Nathan: "
                         \o extractKeyInfo(robertInfo \o nathanInfo, queryLower),
                       "Comparative analysis of both Robert's and Nathan's supervision transcripts.")
           ELSE Result("", "")
      ELSE IF Includes(queryLower, "robert") \/ Len(robertInfo) > 0
      THEN IF Len(robertInfo) > 0
           THEN Result("Based on Robert's supervision sessions: "
                         \o extractKeyInfo(robertInfo, queryLower),
                       "Analysis of Robert's transcript content from supervision sessions.")
           ELSE Result("", "")
      ELSE IF Includes(queryLower, "nathan") \/ Len(nathanInfo) > 0
      THEN IF Len(nathanInfo) > 0
           THEN Result("Based on Nathan's supervision sessions: "
                         \o extractKeyInfo(nathanInfo, queryLower),
                       "Analysis of Nathan's transcript content from supervision sessions.")
           ELSE Result("", "")
      ELSE IF Len(policyChunks) > 0
      THEN Result("Based on the Community Corrections policy documents: "
                    \o extractPolicyInfo(policyChunks, queryLower),
                  "Analysis of relevant policy document sections.")
      ELSE IF Len(transcriptChunks) > 0
      THEN Result("Based on the supervision transcripts: "
                    \o extractTranscriptInfo(transcriptChunks, queryLower),
                  "Analysis of supervision session transcripts.")
      ELSE Result(generateGenericResponse(queryLower, relevantChunks),
                  "General content analysis using semantic similarity from processed documents.")

-----------------------------------------------------------------------------
(* EnhancedRAGService: the simplified content-analysis fallback *)

EnhancedRAGService_generateContentAnalysisResponse(query, relevantChunks) ==
  LET first == Slice(relevantChunks, TopChunks)
  IN  [answer |-> "Content analysis response based on available documents.",
       sources |-> [i \in 1..Len(first) |->
          Source(first[i],
                 SubSeq(first[i].text, 1, Min(EnhancedExcerptLimit, Len(first[i].text)))
                   \o Ellipsis)],
       reasoning |-> "Generated using content analysis fallback when APIs are unavailable."]

-----------------------------------------------------------------------------
(* Values shared by the specifications *)

Types == {"transcript", "policy"}

NoResponse == [answer |-> "", sources |-> <<>>, reasoning |-> ""]

\* a request body's query member, with its JavaScript type
Body(type, value) == [type |-> type, value |-> value]

RouteIdle ==
  [pc |-> "idle", body |-> Body("undefined", <<>>), invoked |-> FALSE,
   fetched |-> FALSE, allChunks |-> <<>>, transcriptChunks |-> <<>>,
   policyChunks |-> <<>>, allRelevantChunks |-> <<>>,
   chunksWithSimilarity |-> <<>>, reads |-> 0,
   calls |-> <<>>, passes |-> <<>>, storageFailed |-> FALSE, outcome |-> "none",
   response |-> NoResponse, status |-> 0]

EnhIdle ==
  [pc |-> "idle", query |-> <<>>, fetched |-> FALSE, allChunks |-> <<>>,
   transcriptChunks |-> <<>>, policyChunks |-> <<>>, allRelevantChunks |-> <<>>,
   apiIndex |-> 0, chunksWithSimilarity |-> <<>>, reads |-> 0,
   calls |-> <<>>, passes |-> <<>>, storageFailed |-> FALSE, outcome |-> "none",
   response |-> NoResponse]

\* the calls of findSimilarChunksByType one retrieval makes: the transcript pass,
\* then the policy pass, each with the vector it is handed
RankingPasses(transcriptVector, policyVector) ==
  <<[type |-> "transcript", queryEmbedding |-> transcriptVector],
    [type |-> "policy", queryEmbedding |-> policyVector]>>

\* no process request in progress
ProcIdle ==
  [pc |-> "idle", run |-> 0, documentId |-> 0, chunks |-> <<>>,
   vectorChunks |-> <<>>, status |-> 0]

ServerIdle ==
  /\ documents = <<>>
  /\ documentSeq = 0
  /\ chunkSeq = 0
  /\ proc = ProcIdle
  /\ vectorChunks = <<>>
  /\ chatMessages = <<>>
  /\ route = RouteIdle
  /\ enh = EnhIdle

Applied(op, out) == [op |-> op, in |-> pure.in, out |-> out]

SeqsUpTo(S, n) == UNION {[1..k -> S] : k \in 0..n}

Chunk(id, text, embedding, documentId, documentName, type, chunkIndex) ==
  [id |-> id, text |-> text, embedding |-> embedding,
   metadata |-> [documentId |-> documentId, documentName |-> documentName,
                 type |-> type, chunkIndex |-> chunkIndex]]

SimsOf(ranked) == [i \in 1..Len(ranked) |-> ranked[i].similarity]

-----------------------------------------------------------------------------
(* SpecCosine: the three cosineSimilarity implementations on vectors of any   *)
(* two lengths                                                              *)

Components == {0 - 1, 0, 1, 2}
Vectors == SeqsUpTo(Components, MaxVecLen)

InitCosine ==
  /\ ServerIdle
  /\ pure \in [op : {"input"}, in : [a : Vectors, b : Vectors], out : {Num(0)}]

CallVectorCosine ==
  /\ pure.op = "input"
  /\ pure' = Applied("VectorService.cosineSimilarity",
                     VectorService_cosineSimilarity(pure.in.a, pure.in.b))
  /\ UNCHANGED <<storeVars, vectorChunks, chatMessages, route, enh>>

CallEnhancedCosine ==
  /\ pure.op = "input"
  /\ pure' = Applied("EnhancedRAGService.cosineSimilarity",
                     EnhancedRAGService_cosineSimilarity(pure.in.a, pure.in.b))
  /\ UNCHANGED <<storeVars, vectorChunks, chatMessages, route, enh>>

CallDemoCosine ==
  /\ pure.op = "input"
  /\ pure' = Applied("DemoVectorService.cosineSimilarity",
                     DemoVectorService_cosineSimilarity(pure.in.a, pure.in.b))
  /\ UNCHANGED <<storeVars, vectorChunks, chatMessages, route, enh>>

NextCosine == CallVectorCosine \/ CallEnhancedCosine \/ CallDemoCosine

SpecCosine == InitCosine /\ [][NextCosine]_vars

CosineOps == {"VectorService.cosineSimilarity", "EnhancedRAGService.cosineSimilarity",
              "DemoVectorService.cosineSimilarity"}

(* C8: for vectors of different lengths every cosineSimilarity implementation
   returns 0 (none of them raises): never a non-zero score, never NaN. *)
C8_DimensionMismatchIsZero ==
  (pure.op \in CosineOps /\ Len(pure.in.a) # Len(pure.in.b)) => pure.out = Num(0)

-----------------------------------------------------------------------------
(* SpecRank: findSimilarChunks, findSimilarChunksByType and the ranking of    *)
(* multiHopRetrieval on chunk lists of both categories                       *)

RankEmbeddings == {<<>>, <<1, 0>>, <<1, 1>>}
RankQueries == {<<1, 0>>, <<1, 1, 0>>}
RankThresholds == {VectorThreshold, DemoThreshold, 0}

RankChunks(kinds) ==
  [i \in 1..Len(kinds) |->
     Chunk(i, <<>>, kinds[i].embedding, 1, <<"doc">>, kinds[i].type, i - 1)]

RankInputs ==
  [queryEmbedding : RankQueries,
   chunks : {RankChunks(k) :
               k \in SeqsUpTo([embedding : RankEmbeddings, type : Types], MaxRankChunks)},
   topK : 0..MaxTopK,
   threshold : RankThresholds]

InitRank ==
  /\ ServerIdle
  /\ pure \in [op : {"input"}, in : RankInputs, out : {<<>>}]

CallVectorFindSimilarChunks ==
  /\ pure.op = "input"
  /\ pure' = Applied("VectorService.findSimilarChunks",
       VectorService_findSimilarChunks(pure.in.queryEmbedding, pure.in.chunks,
                                       pure.in.topK, pure.in.threshold))
  /\ UNCHANGED <<storeVars, vectorChunks, chatMessages, route, enh>>

CallDemoFindSimilarChunks ==
  /\ pure.op = "input"
  /\ pure' = Applied("DemoVectorService.findSimilarChunks",
       DemoVectorService_findSimilarChunks(pure.in.queryEmbedding, pure.in.chunks,
                                           pure.in.topK, pure.in.threshold))
  /\ UNCHANGED <<storeVars, vectorChunks, chatMessages, route, enh>>

CallVectorFindSimilarChunksByType ==
  /\ pure.op = "input"
  /\ \E type \in Types :
       pure' = [Applied("VectorService.findSimilarChunksByType",
                  VectorService_findSimilarChunksByType(pure.in.queryEmbedding,
                    pure.in.chunks, type, pure.in.topK, pure.in.threshold))
                EXCEPT !.in = [queryEmbedding |-> pure.in.queryEmbedding,
                               chunks |-> pure.in.chunks, topK |-> pure.in.topK,
                               threshold |-> pure.in.threshold, type |-> type]]
  /\ UNCHANGED <<storeVars, vectorChunks, chatMessages, route, enh>>

CallDemoFindSimilarChunksByType ==
  /\ pure.op = "input"
  /\ \E type \in Types :
       pure' = [Applied("DemoVectorService.findSimilarChunksByType",
                  DemoVectorService_findSimilarChunksByType(pure.in.queryEmbedding,
                    pure.in.chunks, type, pure.in.topK, pure.in.threshold))
                EXCEPT !.in = [queryEmbedding |-> pure.in.queryEmbedding,
                               chunks |-> pure.in.chunks, topK |-> pure.in.topK,
                               threshold |-> pure.in.threshold, type |-> type]]
  /\ UNCHANGED <<storeVars, vectorChunks, chatMessages, route, enh>>

\* EnhancedRAGService.findSimilarChunksByType has no threshold parameter
CallEnhancedFindSimilarChunksByType ==
  /\ pure.op = "input"
  /\ pure.in.threshold = VectorThreshold
  /\ \E type \in Types :
       pure' = [Applied("EnhancedRAGService.findSimilarChunksByType",
                  EnhancedRAGService_findSimilarChunksByType(pure.in.queryEmbedding,
                    pure.in.chunks, type, pure.in.topK))
                EXCEPT !.in = [queryEmbedding |-> pure.in.queryEmbedding,
                               chunks |-> pure.in.chunks, topK |-> pure.in.topK,
                               threshold |-> EnhancedThreshold, type |-> type]]
  /\ UNCHANGED <<storeVars, vectorChunks, chatMessages, route, enh>>

\* multiHopRetrieval takes its topK and threshold from the defaults
CallMultiHopRetrieval ==
  /\ pure.op = "input"
  /\ pure.in.threshold = VectorThreshold
  /\ pure.in.topK = 0
  /\ pure' = Applied("VectorService.multiHopRetrieval",
       VectorService_multiHopRetrieval(pure.in.queryEmbedding, pure.in.chunks))
  /\ UNCHANGED <<storeVars, vectorChunks, chatMessages, route, enh>>

NextRank ==
  \/ CallVectorFindSimilarChunks
  \/ CallDemoFindSimilarChunks
  \/ CallVectorFindSimilarChunksByType
  \/ CallDemoFindSimilarChunksByType
  \/ CallEnhancedFindSimilarChunksByType
  \/ CallMultiHopRetrieval

SpecRank == InitRank /\ [][NextRank]_vars

FindOps == {"VectorService.findSimilarChunks", "DemoVectorService.findSimilarChunks"}
ByTypeOps == {"VectorService.findSimilarChunksByType",
              "DemoVectorService.findSimilarChunksByType",
              "EnhancedRAGService.findSimilarChunksByType"}

NonIncreasing(sims) ==
  \A i \in 1..Len(sims) : \A j \in i..Len(sims) :
    IsNumber(sims[i]) /\ IsNumber(sims[j]) /\ sims[i].v >= sims[j].v

(* C5: the list findSimilarChunks returns is sorted non-increasing by similarity,
   every item's similarity is a number >= threshold, and it has at most topK items. *)
C5_RankingMonotone ==
  pure.op \in FindOps =>
    /\ NonIncreasing(SimsOf(pure.out))
    /\ \A i \in 1..Len(pure.out) :
         IsNumber(pure.out[i].similarity)
         /\ pure.out[i].similarity.v >= pure.in.threshold
    /\ Len(pure.out) <= pure.in.topK

\* two chunks of different similarity returned, one chunk cut by topK or threshold
C5_Witness ==
  /\ pure.op \in FindOps
  /\ Len(pure.out) = 2
  /\ pure.out[1].similarity.v > pure.out[2].similarity.v
  /\ pure.out[1].id > pure.out[2].id
  /\ Len(pure.in.chunks) = 3

AllOfType(ranked, type) == \A i \in 1..Len(ranked) : ranked[i].metadata.type = type

(* C6: findSimilarChunksByType never returns a chunk of another type than the
   requested one, and a retrieval result holds only transcript chunks in
   transcriptChunks and only policy chunks in policyChunks. *)
C6_CategoryPartition ==
  /\ pure.op \in ByTypeOps => AllOfType(pure.out, pure.in.type)
  /\ pure.op = "VectorService.multiHopRetrieval" =>
       /\ AllOfType(pure.out.transcriptChunks, "transcript")
       /\ AllOfType(pure.out.policyChunks, "policy")

\* a non-empty result out of a list that also held a passing chunk of the other type
C6_Witness ==
  /\ pure.op \in ByTypeOps
  /\ pure.out # <<>>
  /\ \E i \in 1..Len(pure.in.chunks) :
       /\ pure.in.chunks[i].metadata.type # pure.in.type
       /\ pure.in.chunks[i].embedding = pure.in.queryEmbedding

-----------------------------------------------------------------------------
(* SpecFuse: the fusion of generateRAGResponse and processQueryWithFallbacks  *)
(* on two ranked lists, long enough for the cut at FusionTopN                 *)

FuseSims == {900, 800, 400, 200}

\* what a ranking returns: similarities in non-increasing order
FuseLists ==
  {sims \in SeqsUpTo(FuseSims, MaxFuse) :
     \A i \in 1..(Len(sims) - 1) : sims[i] >= sims[i + 1]}

Ranked(sims, type, firstId) ==
  [i \in 1..Len(sims) |->
     WithSimilarity(Chunk(firstId + i, <<>>, <<>>, 1, <<"doc">>, type, i - 1),
                    Num(sims[i]))]

InitFuse ==
  /\ ServerIdle
  /\ pure \in [op : {"input"},
               in : [transcriptChunks : {Ranked(t, "transcript", 0) : t \in FuseLists},
                     policyChunks : {Ranked(q, "policy", 100) : q \in FuseLists}],
               out : {<<>>}]

CallFuseRanked ==
  /\ pure.op = "input"
  /\ pure' = Applied("fuse", FuseRanked(pure.in.transcriptChunks, pure.in.policyChunks))
  /\ UNCHANGED <<storeVars, vectorChunks, chatMessages, route, enh>>

NextFuse == CallFuseRanked

SpecFuse == InitFuse /\ [][NextFuse]_vars

\* L[j] comes before L[i] in the descending stable order
Precedes(L, j, i) ==
  \/ L[j].similarity.v > L[i].similarity.v
  \/ L[j].similarity.v = L[i].similarity.v /\ j < i

\* the place of L[i] in the descending stable order of L
PlaceOf(L, i) == Cardinality({j \in 1..Len(L) : Precedes(L, j, i)}) + 1

StableDescendingPrefix(F, L, n) ==
  /\ Len(F) = Min(n, Len(L))
  /\ \A i \in 1..Len(L) : PlaceOf(L, i) <= n => F[PlaceOf(L, i)] = L[i]

(* C7: the fused list is transcriptChunks ++ policyChunks sorted descending by
   similarity, equal similarities keeping the order of the concatenation (a
   transcript chunk before a policy chunk), cut to the first 8; similarities
   [0.9, 0.4] and [0.8, 0.2] fuse to [0.9, 0.8, 0.4, 0.2]. *)
C7_FusionOrdering ==
  pure.op = "fuse" =>
    /\ StableDescendingPrefix(pure.out,
         pure.in.transcriptChunks \o pure.in.policyChunks, 8)
    /\ (/\ SimsOf(pure.in.transcriptChunks) = <<Num(900), Num(400)>>
        /\ SimsOf(pure.in.policyChunks) = <<Num(800), Num(200)>>)
       => SimsOf(pure.out) = <<Num(900), Num(800), Num(400), Num(200)>>

\* more than 8 candidates, a policy chunk ranked before a transcript chunk, and a
\* transcript chunk and a policy chunk of equal similarity both kept
C7_Witness ==
  /\ pure.op = "fuse"
  /\ Len(pure.in.transcriptChunks) + Len(pure.in.policyChunks) > 8
  /\ \E i \in 1..(Len(pure.out) - 1) :
       /\ pure.out[i].metadata.type = "policy"
       /\ pure.out[i + 1].metadata.type = "transcript"
  /\ \E i \in 1..(Len(pure.out) - 1) :
       /\ pure.out[i].metadata.type = "transcript"
       /\ pure.out[i + 1].metadata.type = "policy"
       /\ pure.out[i].similarity = pure.out[i + 1].similarity

-----------------------------------------------------------------------------
(* SpecContent: the content-analysis fallbacks on every query and chunk set   *)

MaxQueryWords == 2     \* units of a query
MaxContentChunks == 3  \* chunks handed to a content analysis

QueryUnits == {"compare", "Robert", "nathan", "stress", "work", "grievance",
               "program", "hello"}

ContentChunkKinds ==
  {[type |-> "transcript", documentName |-> <<"Nathan", "transcript">>,
    text |-> <<"Nathan", "stress">>],
   [type |-> "transcript", documentName |-> <<"Robert", "transcript">>,
    text |-> <<"Robert", "work">>],
   [type |-> "transcript", documentName |-> <<"session", "notes">>,
    text |-> <<"progress">>],
   [type |-> "policy", documentName |-> <<"grievance", "policy">>,
    text |-> <<"grievance", "appeal">>],
   [type |-> "policy", documentName |-> <<"Robert", "plan">>,
    text |-> <<"<processing note>", "programming">>]}

ContentChunks(kinds) ==
  [i \in 1..Len(kinds) |->
     WithSimilarity(Chunk(i, kinds[i].text, <<1, 0>>, i, kinds[i].documentName,
                          kinds[i].type, 0),
                    Num(PlaceholderSimilarity))]

InitContent ==
  /\ ServerIdle
  /\ pure \in [op : {"input"},
               in : [query : SeqsUpTo(QueryUnits, MaxQueryWords),
                     relevantChunks : {ContentChunks(k) :
                        k \in SeqsUpTo(ContentChunkKinds, MaxContentChunks)}],
               out : {<<>>}]

CallContentAnalysis ==
  /\ pure.op = "input"
  /\ pure' = Applied("RAGService.generateContentAnalysisResponse",
       RAGService_generateContentAnalysisResponse(pure.in.query, pure.in.relevantChunks))
  /\ UNCHANGED <<storeVars, vectorChunks, chatMessages, route, enh>>

CallEnhancedContentAnalysis ==
  /\ pure.op = "input"
  /\ pure' = Applied("EnhancedRAGService.generateContentAnalysisResponse",
       EnhancedRAGService_generateContentAnalysisResponse(pure.in.query,
                                                          pure.in.relevantChunks))
  /\ UNCHANGED <<storeVars, vectorChunks, chatMessages, route, enh>>

NextContent == CallContentAnalysis \/ CallEnhancedContentAnalysis

SpecContent == InitContent /\ [][NextContent]_vars

(* C2: for every query and every non-empty chunk set
   RAGService.generateContentAnalysisResponse returns a non-empty answer and a
   non-empty reasoning. *)
C2_ContentAnalysisAlwaysAnswers ==
  (/\ pure.op = "RAGService.generateContentAnalysisResponse"
   /\ pure.in.relevantChunks # <<>>)
  => (pure.out.answer # "" /\ pure.out.reasoning # "")

-----------------------------------------------------------------------------
(* Spec: the server.  One query is followed at a time, either through the     *)
(* POST /api/chat/query route (RAGService.processQuery) or as a call of       *)
(* EnhancedRAGService.processQueryWithFallbacks; a step is the code between   *)
(* two awaits.                                                                *)

ServerCatalog ==
  <<Chunk(1, <<"Nathan", "stress">>, <<1, 0>>, 1, <<"Nathan", "transcript">>,
          "transcript", 0),
    Chunk(2, <<"Robert", "work">>, <<1, 1>>, 2, <<"Robert", "transcript">>,
          "transcript", 0),
    Chunk(3, <<"grievance", "appeal">>, <<1, 0>>, 3, <<"grievance", "policy">>,
          "policy", 0),
    Chunk(4, <<"programming">>, <<>>, 4, <<"programming", "policy">>, "policy", 0)>>

\* the contents of vector_chunks: rows of the catalog, each at most once
Corpora ==
  {[i \in 1..Len(ix) |-> ServerCatalog[ix[i]]] :
     ix \in {s \in SeqsUpTo(1..Len(ServerCatalog), MaxChunks) :
               \A i, j \in 1..Len(s) : i # j => s[i] # s[j]}}

ServerQueries == {<<"Robert", "work">>, <<"hello">>}

Bodies ==
  {Body("undefined", <<>>), Body("string", <<>>), Body("number", <<"0">>),
   Body("number", <<"7">>), Body("object", <<>>)}
  \cup {Body("string", q) : q \in ServerQueries}

\* the vectors an embedding backend answers with
QueryEmbeddings == {<<1, 0>>, <<0, 1, 1>>}

\* !query is false exactly for these
Truthy(body) ==
  CASE body.type = "undefined" -> FALSE
    [] body.type = "string" -> body.value # <<>>
    [] body.type = "number" -> body.value # <<"0">>
    [] OTHER -> TRUE

\* variant without the typeof test: C9 fails with it
RejectsOnlyFalsy(body) == ~Truthy(body)

\* if (!query || typeof query !== 'string')
QueryRejected(body) == ~Truthy(body) \/ body.type # "string"

\* variant without the test for an empty corpus: C4 fails with it
NeverEmptyCorpus(allChunks) == FALSE

\* if (allChunks.length === 0)
IsEmptyCorpus(allChunks) == Len(allChunks) = 0

\* variant without the length test (an empty array is truthy): C22 fails with it
hasEmbeddings_anyArray(allChunks) == Len(allChunks) > 0

\* allChunks.some(chunk => chunk.embedding && chunk.embedding.length > 0)
hasEmbeddings(allChunks) ==
  \E i \in 1..Len(allChunks) : Len(allChunks[i].embedding) > 0

\* chunks.map(chunk => ({ ...chunk, similarity: 0.85 }))
WithPlaceholder(chunks) ==
  [i \in 1..Len(chunks) |-> WithSimilarity(chunks[i], Num(PlaceholderSimilarity))]

Returned(response) == [outcome |-> "returned", response |-> response]
Thrown == [outcome |-> "thrown", response |-> NoResponse]

Logged(calls, backend, ok) == Append(calls, [backend |-> backend, ok |-> ok])

TextFrom(backend) == "<text generated by " \o backend \o ">"

(* RAGService.processQuery *)

\* catch (error) { ... return this.generateContentAnalysisResponse(query, chunksWithSimilarity) }
processQuery_onVectorSearchError(query, allChunks) ==
  Returned(RAGService_generateContentAnalysisResponse(query, WithPlaceholder(allChunks)))

\* variant of the catch that rethrows: C3 fails with it
generateRAGResponse_rethrow(query, allRelevantChunks) == Thrown

\* catch (error) { ... return this.generateContentAnalysisResponse(query, allRelevantChunks) }
generateRAGResponse_onError(query, allRelevantChunks) ==
  Returned(RAGService_generateContentAnalysisResponse(query, allRelevantChunks))

generateRAGResponse_answer(content, allRelevantChunks, transcriptChunks, policyChunks) ==
  [answer |-> IF content # "" THEN content
              ELSE "I apologize, but I couldn't generate a response to your question.",
   sources |-> [i \in 1..Len(allRelevantChunks) |->
      Source(allRelevantChunks[i], cleanSourceText(allRelevantChunks[i].text))],
   reasoning |-> "Retrieved " \o ToString(Len(allRelevantChunks))
      \o " relevant chunks from " \o ToString(Len(transcriptChunks))
      \o " transcript chunks and " \o ToString(Len(policyChunks))
      \o " policy chunks. Answer generated using GPT-4o with retrieved context."]

\* the route once processQuery has returned or thrown
Settled(r, result) ==
  IF result.outcome = "returned"
  THEN [r EXCEPT !.pc = "store", !.outcome = "returned", !.response = result.response]
  ELSE [r EXCEPT !.pc = "done", !.outcome = "thrown", !.status = 500]

\* POST /api/chat/query up to the first await
ChatQuery ==
  /\ route.pc \in {"idle", "done"}
  /\ enh.pc \in {"idle", "done"}
  /\ \E body \in Bodies :
       /\ QueryRejected(body) \/ Len(chatMessages) < MaxMessages
       /\ route' = IF QueryRejected(body)
                   THEN [RouteIdle EXCEPT !.pc = "done", !.body = body,
                                          !.outcome = "rejected", !.status = 400]
                   ELSE [RouteIdle EXCEPT !.pc = "getChunks", !.body = body,
                                          !.invoked = TRUE]
  /\ enh' = EnhIdle
  /\ UNCHANGED <<storeVars, vectorChunks, chatMessages, pure>>

\* await storage.getAllVectorChunks() and what follows up to the next await
ProcessQueryRead ==
  /\ route.pc = "getChunks"
  /\ \E storage \in {"rows", "quota error", "error"} :
       route' =
         IF storage = "error"
         THEN Settled([route EXCEPT !.reads = @ + 1, !.storageFailed = TRUE], Thrown)
         ELSE IF storage = "quota error"
         THEN [route EXCEPT !.pc = "quotaRead", !.reads = @ + 1,
                            !.storageFailed = TRUE]
         ELSE LET read == [route EXCEPT !.reads = @ + 1, !.fetched = TRUE,
                                        !.allChunks = vectorChunks]
              IN  IF IsEmptyCorpus(vectorChunks)
                  THEN Settled(read, Returned(NoDocumentsResponse))
                  ELSE IF ~hasEmbeddings(vectorChunks)
                  THEN Settled(read, Returned(
                         RAGService_generateContentAnalysisResponse(
                           route.body.value, WithPlaceholder(vectorChunks))))
                  ELSE [read EXCEPT !.pc = "embed"]
  /\ UNCHANGED <<storeVars, vectorChunks, chatMessages, enh, pure>>

\* await VectorService.multiHopRetrieval(query, allChunks), then generateRAGResponse
\* up to its await
ProcessQueryEmbed ==
  /\ route.pc = "embed"
  /\ \/ route' = Settled(
          [route EXCEPT !.calls = Logged(@, "OpenAI embeddings", FALSE)],
          processQuery_onVectorSearchError(route.body.value, route.allChunks))
     \/ \E queryEmbedding \in QueryEmbeddings, apiKey \in BOOLEAN :
          LET result == VectorService_multiHopRetrieval(queryEmbedding, route.allChunks)
              allRelevantChunks == FuseRanked(result.transcriptChunks, result.policyChunks)
              ranked == [route EXCEPT !.calls = Logged(@, "OpenAI embeddings", TRUE),
                                      !.passes = @ \o RankingPasses(
                                        result.queryEmbedding, result.queryEmbedding),
                                      !.transcriptChunks = result.transcriptChunks,
                                      !.policyChunks = result.policyChunks,
                                      !.allRelevantChunks = allRelevantChunks]
          IN  route' =
                IF Len(allRelevantChunks) = 0
                THEN Settled(ranked, Returned(NoRelevantResponse))
                ELSE IF ~apiKey
                THEN Settled(ranked, Returned(
                       RAGService_generateContentAnalysisResponse(
                         route.body.value, allRelevantChunks)))
                ELSE [ranked EXCEPT !.pc = "generate"]
  /\ UNCHANGED <<storeVars, vectorChunks, chatMessages, enh, pure>>

\* await openai.chat.completions.create(...)
ProcessQueryGenerate ==
  /\ route.pc = "generate"
  /\ \E reply \in {"text", "no content", "error"} :
       route' =
         IF reply = "error"
         THEN Settled([route EXCEPT !.calls = Logged(@, "OpenAI", FALSE)],
                      generateRAGResponse_onError(route.body.value,
                                                  route.allRelevantChunks))
         ELSE Settled([route EXCEPT !.calls = Logged(@, "OpenAI", TRUE)],
                      Returned(generateRAGResponse_answer(
                        IF reply = "text" THEN TextFrom("GPT-4o") ELSE "",
                        route.allRelevantChunks, route.transcriptChunks,
                        route.policyChunks)))
  /\ UNCHANGED <<storeVars, vectorChunks, chatMessages, enh, pure>>

\* the catch of processQuery on a quota error: await storage.getAllVectorChunks()
ProcessQueryQuotaRead ==
  /\ route.pc = "quotaRead"
  /\ \E storage \in {"rows", "error"} :
       route' =
         IF storage = "rows"
         THEN Settled([route EXCEPT !.reads = @ + 1,
                         !.chunksWithSimilarity = WithPlaceholder(vectorChunks)],
                      Returned(RAGService_generateContentAnalysisResponse(
                        route.body.value, WithPlaceholder(vectorChunks))))
         ELSE Settled([route EXCEPT !.reads = @ + 1], Thrown)
  /\ UNCHANGED <<storeVars, vectorChunks, chatMessages, enh, pure>>

\* await storage.createChatMessage(...); res.json(ragResponse)
StoreChatMessage ==
  /\ route.pc = "store"
  /\ \/ /\ chatMessages' = Append(chatMessages,
             [message |-> route.body.value, response |-> route.response.answer,
              sources |-> route.response.sources])
        /\ route' = [route EXCEPT !.pc = "done", !.status = 200]
     \/ /\ route' = [route EXCEPT !.pc = "done", !.status = 500, !.storageFailed = TRUE]
        /\ UNCHANGED chatMessages
  /\ UNCHANGED <<storeVars, vectorChunks, enh, pure>>

(* EnhancedRAGService.processQueryWithFallbacks *)

\* variant with Groq moved to the head of the list: C18 fails with it
apis_GroqFirst == <<"Groq", "OpenAI", "Google Gemini", "Cohere", "Together AI">>

\* const apis = [...] in order of preference
apis == <<"OpenAI", "Groq", "Google Gemini", "Cohere", "Together AI">>

\* variant without if (!answer): C1 fails with it
respond_withoutFallback(query, answer, apiUsed, allRelevantChunks) ==
  Returned(
    [answer |-> answer,
     sources |-> [i \in 1..Len(allRelevantChunks) |->
        Source(allRelevantChunks[i], Excerpt(allRelevantChunks[i].text, ExcerptLimit))],
     reasoning |-> "Retrieved " \o ToString(Len(allRelevantChunks))
        \o " relevant chunks. Answer generated using " \o apiUsed
        \o " API with retrieved context."])

\* variant that takes the placeholder text of a backend for no answer: C19 fails
\* with it
respond_placeholderIsFailure(query, answer, apiUsed, allRelevantChunks) ==
  IF answer = "" \/ answer = "No response generated"
  THEN Returned(EnhancedRAGService_generateContentAnalysisResponse(query, allRelevantChunks))
  ELSE respond_withoutFallback(query, answer, apiUsed, allRelevantChunks)

\* variant whose reasoning names the first backend of the list instead of
\* apiUsed: C20 fails with it
respond_namesFirstApi(query, answer, apiUsed, allRelevantChunks) ==
  IF answer = ""
  THEN Returned(EnhancedRAGService_generateContentAnalysisResponse(query, allRelevantChunks))
  ELSE respond_withoutFallback(query, answer, "OpenAI", allRelevantChunks)

\* variant that hands content analysis the chunks with the placeholder
\* similarity, as the catch blocks do: C24 fails with it
respond_placeholderSimilarity(query, answer, apiUsed, allRelevantChunks) ==
  IF answer = ""
  THEN Returned(EnhancedRAGService_generateContentAnalysisResponse(
         query, WithPlaceholder(allRelevantChunks)))
  ELSE respond_withoutFallback(query, answer, apiUsed, allRelevantChunks)

\* what follows the loop over apis: if (!answer) ... else the answered response
processQueryWithFallbacks_respond(query, answer, apiUsed, allRelevantChunks) ==
  IF answer = ""
  THEN Returned(EnhancedRAGService_generateContentAnalysisResponse(query, allRelevantChunks))
  ELSE Returned(
    [answer |-> answer,
     sources |-> [i \in 1..Len(allRelevantChunks) |->
        Source(allRelevantChunks[i], Excerpt(allRelevantChunks[i].text, ExcerptLimit))],
     reasoning |-> "Retrieved " \o ToString(Len(allRelevantChunks))
        \o " relevant chunks. Answer generated using " \o apiUsed
        \o " API with retrieved context."])

\* the call once processQueryWithFallbacks has returned or thrown
EnhSettled(e, result) ==
  [e EXCEPT !.pc = "done", !.outcome = result.outcome, !.response = result.response]

\* variant without if (allRelevantChunks.length === 0): C23 fails with it
EnhRanked_withoutEmptyCheck(e, transcriptChunks, policyChunks) ==
  [e EXCEPT !.transcriptChunks = transcriptChunks,
            !.policyChunks = policyChunks,
            !.allRelevantChunks = FuseRanked(transcriptChunks, policyChunks),
            !.pc = "generate", !.apiIndex = 1]

\* const allRelevantChunks = [...].sort(...).slice(0, 8) and the check that follows
EnhRanked(e, transcriptChunks, policyChunks) ==
  LET allRelevantChunks == FuseRanked(transcriptChunks, policyChunks)
      ranked == [e EXCEPT !.transcriptChunks = transcriptChunks,
                          !.policyChunks = policyChunks,
                          !.allRelevantChunks = allRelevantChunks]
  IN  IF Len(allRelevantChunks) = 0
      THEN EnhSettled(ranked, Returned(NoRelevantResponse))
      ELSE [ranked EXCEPT !.pc = "generate", !.apiIndex = 1]

\* a call of processQueryWithFallbacks up to the first await
EnhStart ==
  /\ route.pc \in {"idle", "done"}
  /\ enh.pc \in {"idle", "done"}
  /\ \E query \in ServerQueries :
       enh' = [EnhIdle EXCEPT !.pc = "getChunks", !.query = query]
  /\ route' = RouteIdle
  /\ UNCHANGED <<storeVars, vectorChunks, chatMessages, pure>>

\* await storage.getAllVectorChunks() and what follows up to the next await
EnhRead ==
  /\ enh.pc = "getChunks"
  /\ \E storage \in {"rows", "error"} :
       enh' =
         IF storage = "error"
         THEN [enh EXCEPT !.pc = "fallbackRead", !.reads = @ + 1,
                          !.storageFailed = TRUE]
         ELSE LET read == [enh EXCEPT !.reads = @ + 1, !.fetched = TRUE,
                                      !.allChunks = vectorChunks]
              IN  IF IsEmptyCorpus(vectorChunks)
                  THEN EnhSettled(read, Returned(NoDocumentsResponse))
                  ELSE IF ~hasEmbeddings(vectorChunks)
                  THEN EnhSettled(read, Returned(
                         EnhancedRAGService_generateContentAnalysisResponse(
                           enh.query, vectorChunks)))
                  ELSE [read EXCEPT !.pc = "embedOpenAI"]
  /\ UNCHANGED <<storeVars, vectorChunks, chatMessages, route, pure>>

\* variant whose catch (openaiError) goes to content analysis at once: C21 fails
\* with it
onOpenAIError_contentAnalysis(e) ==
  [e EXCEPT !.pc = "done", !.outcome = "returned",
            !.response = EnhancedRAGService_generateContentAnalysisResponse(
                           e.query, e.allChunks)]

\* catch (openaiError) { ... try { the Hugging Face attempt } ... }
processQueryWithFallbacks_onOpenAIError(e) == [e EXCEPT !.pc = "embedHF"]

\* await VectorService.multiHopRetrieval(query, allChunks)
EnhEmbedOpenAI ==
  /\ enh.pc = "embedOpenAI"
  /\ \/ enh' = processQueryWithFallbacks_onOpenAIError(
          [enh EXCEPT !.calls = Logged(@, "OpenAI embeddings", FALSE)])
     \/ \E queryEmbedding \in QueryEmbeddings :
          LET result == VectorService_multiHopRetrieval(queryEmbedding, enh.allChunks)
          IN  enh' = EnhRanked(
                [enh EXCEPT !.calls = Logged(@, "OpenAI embeddings", TRUE),
                            !.passes = @ \o RankingPasses(
                              result.queryEmbedding, result.queryEmbedding)],
                result.transcriptChunks, result.policyChunks)
  /\ UNCHANGED <<storeVars, vectorChunks, chatMessages, route, pure>>

\* variant ranking the policy chunks with another vector than the transcript
\* chunks (the query vector reversed): C26 fails with it
rankWithHuggingFace_secondVector(e, queryEmbedding) ==
  LET second == [i \in 1..Len(queryEmbedding) |->
                   queryEmbedding[Len(queryEmbedding) + 1 - i]]
  IN  EnhRanked(
        [e EXCEPT !.passes = @ \o RankingPasses(queryEmbedding, second)],
        EnhancedRAGService_findSimilarChunksByType(
          queryEmbedding, e.allChunks, "transcript", DefaultTopK),
        EnhancedRAGService_findSimilarChunksByType(
          second, e.allChunks, "policy", DefaultTopK))

\* transcriptChunks = this.findSimilarChunksByType(queryEmbedding[0], ...) and
\* policyChunks = this.findSimilarChunksByType(queryEmbedding[0], ...)
processQueryWithFallbacks_rankWithHuggingFace(e, queryEmbedding) ==
  EnhRanked(
    [e EXCEPT !.passes = @ \o RankingPasses(queryEmbedding, queryEmbedding)],
    EnhancedRAGService_findSimilarChunksByType(
      queryEmbedding, e.allChunks, "transcript", DefaultTopK),
    EnhancedRAGService_findSimilarChunksByType(
      queryEmbedding, e.allChunks, "policy", DefaultTopK))

\* await FreeApiService.generateHuggingFaceEmbeddings([query]) and the two
\* rankings, all inside try { ... } catch (hfError): the attempt fails when the
\* call raises and when a reply without a first vector makes cosineSimilarity raise
EnhEmbedHF ==
  /\ enh.pc = "embedHF"
  /\ \/ enh' = EnhSettled(
          [enh EXCEPT !.calls = Logged(@, "Hugging Face embeddings", FALSE)],
          Returned(EnhancedRAGService_generateContentAnalysisResponse(
            enh.query, enh.allChunks)))
     \/ \E queryEmbedding \in QueryEmbeddings :
          enh' = processQueryWithFallbacks_rankWithHuggingFace(
            [enh EXCEPT !.calls = Logged(@, "Hugging Face embeddings", TRUE)],
            queryEmbedding)
  /\ UNCHANGED <<storeVars, vectorChunks, chatMessages, route, pure>>

\* variant of tryOpenAI that calls the OpenAI chat API and can answer: C35 fails
\* with it
tryOpenAI_callsOpenAI == {"text", "error"}

\* private static async tryOpenAI: throw new Error('OpenAI not available')
EnhancedRAGService_tryOpenAI == {"error"}

\* one turn of for (const api of apis): answer = await api.fn(); tryOpenAI always
\* throws, the others answer with the text or 'No response generated', or throw
EnhTryApi ==
  /\ enh.pc = "generate"
  /\ LET api == apis[enh.apiIndex]
     IN  \/ /\ api = "OpenAI" => "text" \in EnhancedRAGService_tryOpenAI
            /\ \E answer \in {TextFrom(api), "No response generated"} :
                 enh' = EnhSettled(
                   [enh EXCEPT !.calls = Logged(@, api, TRUE)],
                   processQueryWithFallbacks_respond(
                     enh.query, answer, api, enh.allRelevantChunks))
         \/ LET failed == [enh EXCEPT !.calls = Logged(@, api, FALSE)]
            IN  enh' = IF enh.apiIndex < Len(apis)
                       THEN [failed EXCEPT !.apiIndex = @ + 1]
                       ELSE EnhSettled(failed, processQueryWithFallbacks_respond(
                              enh.query, "", "", enh.allRelevantChunks))
  /\ UNCHANGED <<storeVars, vectorChunks, chatMessages, route, pure>>

\* the outer catch: await storage.getAllVectorChunks().then(...)
EnhFallbackRead ==
  /\ enh.pc = "fallbackRead"
  /\ \E storage \in {"rows", "error"} :
       enh' =
         IF storage = "rows"
         THEN EnhSettled([enh EXCEPT !.reads = @ + 1,
                            !.chunksWithSimilarity = WithPlaceholder(vectorChunks)],
                         Returned(
                           EnhancedRAGService_generateContentAnalysisResponse(
                             enh.query, WithPlaceholder(vectorChunks))))
         ELSE EnhSettled([enh EXCEPT !.reads = @ + 1, !.storageFailed = TRUE], Thrown)
  /\ UNCHANGED <<storeVars, vectorChunks, chatMessages, route, pure>>

\* the documents the rows of the catalog belong to
CatalogDocuments ==
  [i \in 1..Len(ServerCatalog) |->
     [id |-> ServerCatalog[i].metadata.documentId,
      name |-> ServerCatalog[i].metadata.documentName,
      type |-> ServerCatalog[i].metadata.type,
      content |-> <<ServerCatalog[i].text>>,
      processed |-> \E j \in 1..Len(vectorChunks) :
         vectorChunks[j].metadata.documentId = ServerCatalog[i].metadata.documentId]]

Init ==
  /\ vectorChunks \in Corpora
  /\ documents = CatalogDocuments
  /\ documentSeq = Len(ServerCatalog)
  /\ chunkSeq = Len(ServerCatalog)
  /\ proc = ProcIdle
  /\ chatMessages = <<>>
  /\ route = RouteIdle
  /\ enh = EnhIdle
  /\ pure = [op |-> "none", in |-> <<>>, out |-> <<>>]

Queries ==
  \/ ChatQuery
  \/ ProcessQueryRead
  \/ ProcessQueryEmbed
  \/ ProcessQueryGenerate
  \/ ProcessQueryQuotaRead
  \/ StoreChatMessage
  \/ EnhStart
  \/ EnhRead
  \/ EnhEmbedOpenAI
  \/ EnhEmbedHF
  \/ EnhTryApi
  \/ EnhFallbackRead

Next == Queries

Spec == Init /\ [][Next]_vars

-----------------------------------------------------------------------------
(* Properties of the server *)

Raised(calls, backend) ==
  \E i \in 1..Len(calls) : calls[i] = [backend |-> backend, ok |-> FALSE]

\* every generation backend of the cascade was called and raised
CascadeExhausted(calls) == \A n \in 1..Len(apis) : Raised(calls, apis[n])

(* C1: when the fused ranked list is non-empty and OpenAI, Groq, Google Gemini,
   Cohere and Together AI all raise, processQueryWithFallbacks does not throw:
   it returns a non-empty answer with the reasoning of the content-analysis
   fallback. *)
C1_CascadeExhaustion ==
  (enh.allRelevantChunks # <<>> /\ CascadeExhausted(enh.calls)) =>
    /\ enh.pc = "done"
    /\ enh.outcome = "returned"
    /\ enh.response.answer # ""
    /\ enh.response.reasoning
         = "Generated using content analysis fallback when APIs are unavailable."

C1_Witness ==
  /\ enh.pc = "done"
  /\ Len(enh.allRelevantChunks) = 2
  /\ CascadeExhausted(enh.calls)
  /\ enh.outcome = "returned"
  /\ Len(enh.response.sources) = 2

(* C3: with storage working and a non-empty string query, whatever the
   embedding backend and the generation backend do, processQuery returns a
   response and never throws, and the route answers 200, never a 5xx. *)
C3_BackendFailuresNotSurfaced ==
  (route.invoked /\ ~route.storageFailed) =>
    /\ route.outcome # "thrown"
    /\ route.status \notin 500..599
    /\ route.pc \in {"store", "done"} => route.outcome = "returned"
    /\ route.pc = "done" => route.status = 200

\* answered 200 after the generation backend, or the embedding backend, raised
C3_Witness ==
  /\ route.pc = "done"
  /\ route.status = 200
  /\ ~route.storageFailed
  /\ Raised(route.calls, "OpenAI")
  /\ route.response.sources # <<>>

GuidanceAnswer ==
  "No documents have been indexed yet. Please upload and process some documents first."

(* C4: when storage returns no chunks, processQuery and
   processQueryWithFallbacks return the fixed answer that tells the user to
   upload and process documents, with no sources, and call no embedding and no
   generation backend. *)
C4_EmptyCorpus ==
  /\ (route.fetched /\ route.allChunks = <<>>) =>
       /\ route.outcome = "returned"
       /\ route.response.answer = GuidanceAnswer
       /\ route.response.sources = <<>>
       /\ route.calls = <<>>
  /\ (enh.fetched /\ enh.allChunks = <<>>) =>
       /\ enh.outcome = "returned"
       /\ enh.response.answer = GuidanceAnswer
       /\ enh.response.sources = <<>>
       /\ enh.calls = <<>>

\* processQueryWithFallbacks answered on the empty corpus after the route did
C4_Witness ==
  /\ enh.pc = "done"
  /\ enh.fetched
  /\ enh.allChunks = <<>>
  /\ Len(chatMessages) = 1
  /\ chatMessages[1].response = GuidanceAnswer

\* a body with no query, an empty query or a query that is not a string
Malformed(body) ==
  \/ body.type = "undefined"
  \/ body.type = "string" /\ body.value = <<>>
  \/ body.type # "string"

(* C9: a body of POST /api/chat/query with no query, an empty query or a
   non-string query is answered 400 without processQuery being invoked, without
   any backend call and without a chat message being stored; a chat message is
   stored only after processQuery has returned a response. *)
C9_MalformedQueryRejected ==
  /\ []((route.pc # "idle" /\ Malformed(route.body)) =>
          /\ route.pc = "done"
          /\ route.status = 400
          /\ ~route.invoked
          /\ ~route.fetched
          /\ route.calls = <<>>)
  /\ [][/\ Malformed(route'.body) => chatMessages' = chatMessages
        /\ chatMessages' # chatMessages =>
             /\ route.invoked
             /\ route.outcome = "returned"
             /\ chatMessages' = Append(chatMessages,
                  [message |-> route.body.value,
                   response |-> route.response.answer,
                   sources |-> route.response.sources])]_vars

\* a number as the query answered 400 after an earlier query was stored
C9_Witness ==
  /\ route.pc = "done"
  /\ route.body = Body("number", <<"7">>)
  /\ route.status = 400
  /\ chatMessages # <<>>

SimilaritiesInRange(response) ==
  \A i \in 1..Len(response.sources) :
    /\ IsNumber(response.sources[i].similarity)
    /\ response.sources[i].similarity.v \in 0..Scale

(* C10: every source of every response that processQuery or
   processQueryWithFallbacks returns carries a numeric similarity within [0,1]. *)
C10_SourcesCarrySimilarity ==
  /\ route.outcome = "returned" => SimilaritiesInRange(route.response)
  /\ enh.outcome = "returned" => SimilaritiesInRange(enh.response)

-----------------------------------------------------------------------------
(* SpecStore: the documents and vector_chunks tables under upload, process    *)
(* and delete requests.  One process request is followed at a time; upload    *)
(* and delete requests, which make one storage call, run between its steps.   *)

MaxDocuments == 2     \* documents created before the model stops accepting uploads
MaxProcessRuns == 2   \* process requests followed

\* an uploaded file with the text DocumentProcessor.parseDocument extracts from
\* it, as a list of passages
UploadFiles ==
  {[originalname |-> <<"Nathan", "transcript">>,
    content |-> <<<<"Nathan", "stress">>, <<"Nathan", "work">>>>],
   [originalname |-> <<"grievance">>, content |-> <<<<"grievance", "appeal">>>>],
   [originalname |-> <<"blank">>, content |-> <<>>]}

\* what the OpenAI embeddings endpoint answers with for n inputs
EmbeddingReplies(n) == {[i \in 1..n |-> <<1, 0>>], [i \in 1..n |-> <<1, 1>>]}

HasDocument(docs, id) == \E i \in 1..Len(docs) : docs[i].id = id

\* const [document] = await db.select().from(documents).where(eq(documents.id, id))
getDocument(docs, id) == SelectSeq(docs, LAMBDA d : d.id = id)

OfDocument(rows, documentId) ==
  SelectSeq(rows, LAMBDA c : c.metadata.documentId = documentId)

\* db.insert(documents).values(insertDocument): id is the next serial value,
\* processed defaults to false
createDocument(docs, seq, name, type, content) ==
  Append(docs, [id |-> seq + 1, name |-> name, type |-> type, content |-> content,
                processed |-> FALSE])

\* db.update(documents).set({ processed }).where(eq(documents.id, id))
updateDocumentProcessed(docs, id, processed) ==
  [i \in 1..Len(docs) |->
     IF docs[i].id = id THEN [docs[i] EXCEPT !.processed = processed] ELSE docs[i]]

\* variant without onDelete: 'cascade': C12 fails with it
deleteDocument_withoutCascade(docs, rows, id) ==
  [documents |-> SelectSeq(docs, LAMBDA d : d.id # id), vectorChunks |-> rows]

\* db.delete(documents).where(eq(documents.id, id)); the rows of vector_chunks
\* that reference the document go with it (onDelete: 'cascade')
deleteDocument(docs, rows, id) ==
  [documents |-> SelectSeq(docs, LAMBDA d : d.id # id),
   vectorChunks |-> SelectSeq(rows, LAMBDA c : c.metadata.documentId # id)]

\* db.insert(vectorChunks).values(chunkData): refused when an id is already
\* stored (primary key) or a documentId names no document (references documents.id)
storeVectorChunks(docs, rows, chunks) ==
  IF Len(chunks) = 0 THEN [ok |-> TRUE, vectorChunks |-> rows]
  ELSE IF \/ \E i \in 1..Len(chunks) : ~HasDocument(docs, chunks[i].metadata.documentId)
          \/ \E i \in 1..Len(chunks), j \in 1..Len(rows) : chunks[i].id = rows[j].id
       THEN [ok |-> FALSE, vectorChunks |-> rows]
       ELSE [ok |-> TRUE, vectorChunks |-> rows \o chunks]

\* DocumentProcessor.chunkDocument: one chunk per passage, chunkIndex from 0, each
\* with an identifier of its own
chunkDocument(content, documentId, documentName, type, seq) ==
  [i \in 1..Len(content) |->
     Chunk(seq + i, content[i], <<>>, documentId, documentName, type, i - 1)]

\* POST /api/documents/upload with one file
UploadDocument ==
  /\ documentSeq < MaxDocuments
  /\ \E file \in UploadFiles, bodyType \in Types \cup {""} :
       LET type == IF bodyType # "" THEN bodyType
                   ELSE IF Includes(Lower(file.originalname), "transcript")
                        THEN "transcript" ELSE "policy"
       IN  documents' = createDocument(documents, documentSeq, file.originalname,
                                       type, file.content)
  /\ documentSeq' = documentSeq + 1
  /\ UNCHANGED <<vectorChunks, chatMessages, route, enh, pure, chunkSeq, proc>>

\* DELETE /api/documents/:id
DeleteDocument ==
  /\ \E documentId \in 1..documentSeq :
       LET deleted == deleteDocument(documents, vectorChunks, documentId)
       IN  /\ HasDocument(documents, documentId)
           /\ documents' = deleted.documents
           /\ vectorChunks' = deleted.vectorChunks
  /\ UNCHANGED <<chatMessages, route, enh, pure, documentSeq, chunkSeq, proc>>

\* POST /api/documents/:id/process up to await VectorService.generateEmbeddings
ProcessStart ==
  /\ proc.pc \in {"idle", "done"}
  /\ proc.run < MaxProcessRuns
  /\ \E documentId \in 1..documentSeq :
       LET found == getDocument(documents, documentId)
           started == [ProcIdle EXCEPT !.run = proc.run + 1, !.documentId = documentId]
           chunks == chunkDocument(found[1].content, documentId, found[1].name,
                                   found[1].type, chunkSeq)
       IN  IF found = <<>>
           THEN /\ proc' = [started EXCEPT !.pc = "done", !.status = 404]
                /\ UNCHANGED chunkSeq
           ELSE /\ proc' = IF Len(chunks) = 0
                           THEN [started EXCEPT !.pc = "done", !.status = 400]
                           ELSE [started EXCEPT !.pc = "embed", !.chunks = chunks]
                /\ chunkSeq' = chunkSeq + Len(chunks)
  /\ UNCHANGED <<vectorChunks, chatMessages, route, enh, pure, documents, documentSeq>>

\* await VectorService.generateEmbeddings(texts), then the chunks with their embeddings
ProcessEmbed ==
  /\ proc.pc = "embed"
  /\ \/ proc' = [proc EXCEPT !.pc = "done", !.status = 500]
     \/ \E embeddings \in EmbeddingReplies(Len(proc.chunks)) :
          proc' = [proc EXCEPT !.pc = "store",
                     !.vectorChunks = [i \in 1..Len(proc.chunks) |->
                        [proc.chunks[i] EXCEPT !.embedding = embeddings[i]]]]
  /\ UNCHANGED <<vectorChunks, chatMessages, route, enh, pure, documents,
                 documentSeq, chunkSeq>>

\* await storage.storeVectorChunks(vectorChunks)
ProcessStore ==
  /\ proc.pc = "store"
  /\ LET stored == storeVectorChunks(documents, vectorChunks, proc.vectorChunks)
     IN  /\ vectorChunks' = stored.vectorChunks
         /\ proc' = IF stored.ok THEN [proc EXCEPT !.pc = "mark"]
                    ELSE [proc EXCEPT !.pc = "done", !.status = 500]
  /\ UNCHANGED <<chatMessages, route, enh, pure, documents, documentSeq, chunkSeq>>

\* await storage.updateDocumentProcessed(documentId, true)
ProcessMark ==
  /\ proc.pc = "mark"
  /\ \/ /\ documents' = updateDocumentProcessed(documents, proc.documentId, TRUE)
        /\ proc' = [proc EXCEPT !.pc = "respond"]
     \/ /\ proc' = [proc EXCEPT !.pc = "done", !.status = 500]
        /\ UNCHANGED documents
  /\ UNCHANGED <<vectorChunks, chatMessages, route, enh, pure, documentSeq, chunkSeq>>

\* res.json({ success: true, chunksCreated, document: await storage.getDocument(documentId) })
ProcessRespond ==
  /\ proc.pc = "respond"
  /\ \/ proc' = [proc EXCEPT !.pc = "done", !.status = 200]
     \/ proc' = [proc EXCEPT !.pc = "done", !.status = 500]
  /\ UNCHANGED <<vectorChunks, chatMessages, route, enh, pure, documents,
                 documentSeq, chunkSeq>>

InitStore ==
  /\ ServerIdle
  /\ pure = [op |-> "none", in |-> <<>>, out |-> <<>>]

NextStore ==
  \/ UploadDocument
  \/ DeleteDocument
  \/ ProcessStart
  \/ ProcessEmbed
  \/ ProcessStore
  \/ ProcessMark
  \/ ProcessRespond

SpecStore == InitStore /\ [][NextStore]_vars

(* C11: once a process request on a document has completed, the stored chunks
   of that document are exactly the chunks that request created; chunks of
   earlier runs do not remain alongside them. *)
C11_ReprocessingReplacesChunks ==
  (/\ proc.pc = "done"
   /\ proc.status = 200
   /\ HasDocument(documents, proc.documentId))
  => OfDocument(vectorChunks, proc.documentId) = proc.vectorChunks

(* C12: every stored vector chunk's documentId refers to an existing document,
   under any interleaving of upload, process and delete requests, and no chunk
   of a deleted document is stored. *)
C12_CascadeDelete ==
  /\ \A i \in 1..Len(vectorChunks) :
       HasDocument(documents, vectorChunks[i].metadata.documentId)
  /\ \A documentId \in 1..documentSeq :
       ~HasDocument(documents, documentId)
         => OfDocument(vectorChunks, documentId) = <<>>

\* a document deleted between the chunking and the insert of a process request,
\* while the chunks of another document stay stored
C12_Witness ==
  /\ proc.pc = "done"
  /\ proc.status = 500
  /\ proc.vectorChunks # <<>>
  /\ ~HasDocument(documents, proc.documentId)
  /\ vectorChunks # <<>>

-----------------------------------------------------------------------------
(* SpecSnapshot: queries while documents are deleted *)

NextSnapshot ==
  \/ Queries
  \/ DeleteDocument

SpecSnapshot == Init /\ [][NextSnapshot]_vars

(* C13: a query reads the chunk collection from storage once, at its start, and
   every later step, the fallback after an error included, works on that same
   collection. *)
C13_SnapshotIsolation ==
  /\ route.reads <= 1
  /\ enh.reads <= 1
  /\ (enh.fetched /\ enh.reads > 1 /\ enh.outcome = "returned")
       => enh.chunksWithSimilarity = WithPlaceholder(enh.allChunks)

-----------------------------------------------------------------------------
(* SpecReaders: what ranking, fusion and content analysis leave of the arrays  *)
(* they are handed.  An array is handed over by reference: map, filter, slice *)
(* and the spread build a new array, sort orders its receiver in place.       *)

\* variant that stores the similarity on the chunks it is given: C14 fails with it
findSimilarChunks_annotatesChunks(queryEmbedding, chunks) ==
  [i \in 1..Len(chunks) |->
     WithSimilarity(chunks[i],
       VectorService_cosineSimilarity(queryEmbedding, chunks[i].embedding))]

\* chunks after VectorService.findSimilarChunks: it is the receiver of map only,
\* and { ...chunk, similarity } is a new object
findSimilarChunks_chunksAfter(queryEmbedding, chunks) == chunks

\* the two ranked lists after the fusion: both are spread into a new array, which
\* is the one sort orders
FuseRanked_argumentsAfter(transcriptChunks, policyChunks) ==
  [transcriptChunks |-> transcriptChunks, policyChunks |-> policyChunks]

\* relevantChunks after generateContentAnalysisResponse: the receiver of slice and
\* filter; push is called on the local sources
generateContentAnalysisResponse_chunksAfter(query, relevantChunks) == relevantChunks

ReaderInputs ==
  [queryEmbedding : RankQueries, query : ServerQueries, chunks : Corpora]

InitReaders ==
  /\ ServerIdle
  /\ pure \in [op : {"input"}, in : ReaderInputs, out : {<<>>}]

ReadRank ==
  /\ pure.op = "input"
  /\ pure' = Applied("rank",
       [result |-> VectorService_findSimilarChunks(pure.in.queryEmbedding,
                     pure.in.chunks, DefaultTopK, VectorThreshold),
        given |-> pure.in.chunks,
        after |-> findSimilarChunks_chunksAfter(pure.in.queryEmbedding,
                                                pure.in.chunks)])
  /\ UNCHANGED <<storeVars, vectorChunks, chatMessages, route, enh>>

ReadFuse ==
  /\ pure.op = "input"
  /\ LET ranked == VectorService_multiHopRetrieval(pure.in.queryEmbedding, pure.in.chunks)
         given == [transcriptChunks |-> ranked.transcriptChunks,
                   policyChunks |-> ranked.policyChunks]
     IN  pure' = Applied("fuse",
           [result |-> FuseRanked(ranked.transcriptChunks, ranked.policyChunks),
            given |-> given,
            after |-> FuseRanked_argumentsAfter(ranked.transcriptChunks,
                                                ranked.policyChunks)])
  /\ UNCHANGED <<storeVars, vectorChunks, chatMessages, route, enh>>

ReadContentAnalysis ==
  /\ pure.op = "input"
  /\ LET relevantChunks == WithPlaceholder(pure.in.chunks)
     IN  pure' = Applied("content analysis",
           [result |-> RAGService_generateContentAnalysisResponse(pure.in.query,
                                                                  relevantChunks),
            given |-> relevantChunks,
            after |-> generateContentAnalysisResponse_chunksAfter(pure.in.query,
                                                                  relevantChunks)])
  /\ UNCHANGED <<storeVars, vectorChunks, chatMessages, route, enh>>

NextReaders == ReadRank \/ ReadFuse \/ ReadContentAnalysis

SpecReaders == InitReaders /\ [][NextReaders]_vars

(* C14: ranking, fusion and content analysis leave the chunk collection they are
   given as it was (no chunk added, removed, reordered or changed) and write
   nothing to storage. *)
C14_QueriesArePureReaders ==
  /\ pure.op \in {"rank", "fuse", "content analysis"} => pure.out.after = pure.out.given
  /\ vectorChunks = <<>> /\ documents = <<>> /\ chatMessages = <<>>

\* a fusion whose result is in another order than the lists it was given
C14_Witness ==
  /\ pure.op = "fuse"
  /\ Len(pure.out.result) = 2
  /\ pure.out.result # pure.out.given.transcriptChunks \o pure.out.given.policyChunks
  /\ pure.out.after = pure.out.given

-----------------------------------------------------------------------------
(* SpecTimeout: backends that never respond.  The fetch calls of               *)
(* FreeApiService are awaited with no timeout, signal or race, so a request    *)
(* that gets no reply leaves the awaiting call pending for good.               *)

\* the generation backends reached over fetch (tryOpenAI throws before any I/O)
FetchApis == {"Groq", "Google Gemini", "Cohere", "Together AI"}

\* await FreeApiService.generateHuggingFaceEmbeddings([query]) when the reply
\* never comes: the promise stays pending
EnhEmbedHFNeverResponds ==
  /\ enh.pc = "embedHF"
  /\ enh' = [enh EXCEPT !.pc = "awaiting",
                        !.calls = Logged(@, "Hugging Face embeddings", FALSE)]
  /\ UNCHANGED <<storeVars, vectorChunks, chatMessages, route, pure>>

\* answer = await api.fn() when the reply never comes: the promise stays
\* pending, neither the break nor the catch is reached
EnhTryApiNeverResponds ==
  /\ enh.pc = "generate"
  /\ apis[enh.apiIndex] \in FetchApis
  /\ enh' = [enh EXCEPT !.pc = "awaiting",
                        !.calls = Logged(@, apis[enh.apiIndex], FALSE)]
  /\ UNCHANGED <<storeVars, vectorChunks, chatMessages, route, pure>>

NextTimeout ==
  \/ Queries
  \/ EnhEmbedHFNeverResponds
  \/ EnhTryApiNeverResponds

\* the event loop runs every continuation whose promise has settled
SpecTimeout == Init /\ [][NextTimeout]_vars /\ WF_vars(NextTimeout)

(* C15: every backend call is bounded by a timeout that counts as a failure, so
   a query that has started always reaches a terminal answer, also when a
   backend never responds. *)
C15_EveryQueryTerminates ==
  (enh.pc \notin {"idle", "done"}) ~> (enh.pc = "done")

-----------------------------------------------------------------------------
(* SpecEmbed: the embedding providers *)

MaxBatch == 2         \* texts handed to one generateEmbeddings call

Dimension == 384      \* new Array(384)
WeightUnit == 60      \* a feature is kept in sixtieths: 1 / (index + 1) is exact
NathanBoost == 120    \* 2.0
TopicBoost == 90      \* 1.5
EmbeddingScale == 10 * 10   \* a normalised component is kept in hundredths
Half == 65536         \* an int32 is kept as two 16-bit halves

\* str.charCodeAt(i) for the words of the model
CharCodes(word) ==
  CASE word = "nathan" -> <<110, 97, 116, 104, 97, 110>>
    [] word = "robert" -> <<114, 111, 98, 101, 114, 116>>
    [] word = "stress" -> <<115, 116, 114, 101, 115, 115>>
    [] word = "work" -> <<119, 111, 114, 107>>
    [] word = "policy" -> <<112, 111, 108, 105, 99, 121>>
    [] word = "hello" -> <<104, 101, 108, 108, 111>>
    [] OTHER -> <<>>

\* hash = ((hash << 5) - hash) + char; hash = hash & hash: 31 * hash + char
\* modulo 2^32, on the halves hi and lo of the hash
RECURSIVE HashFrom(_, _, _)
HashFrom(codes, hi, lo) ==
  IF codes = <<>> THEN <<hi, lo>>
  ELSE LET low == 31 * lo + Head(codes)
       IN  HashFrom(Tail(codes), (31 * hi + low \div Half) % Half, low % Half)

\* Math.abs(hash) of the signed 32-bit value
simpleHash(str) ==
  LET hash == HashFrom(CharCodes(str), 0, 0)
  IN  IF hash[1] < Half \div 2
      THEN hash[1] * Half + hash[2]
      ELSE (Half - 1 - hash[1]) * Half + (Half - hash[2])

\* variant that drops the empty words, text.toLowerCase().split(/\s+/).filter(Boolean):
\* the empty string has no word left.  C39 fails with it
SplitWords_withoutEmptyWords(text) == Lower(text)

\* text.toLowerCase().split(/\s+/): the empty string gives one empty word
SplitWords(text) == IF text = <<>> THEN <<"">> ELSE Lower(text)

\* const hash = this.simpleHash(word) % 384, word by word
HashDimensions(words) == [i \in 1..Len(words) |-> simpleHash(words[i]) % Dimension]

\* words.forEach((word, index) => embedding[hash] += 1 / (index + 1)) at one dimension
WordFeature(hashes, dim) ==
  LET hits == {index \in 0..(Len(hashes) - 1) : hashes[index + 1] = dim}
      RECURSIVE Sum(_)
      Sum(S) == IF S = {} THEN 0
                ELSE LET index == CHOOSE x \in S : TRUE
                     IN  WeightUnit \div (index + 1) + Sum(S \ {index})
  IN  Sum(hits)

\* the context-specific features at one dimension
ContextFeature(text, dim) ==
  CASE dim = 100 /\ (Includes(text, "Nathan") \/ Includes(text, "nathan")) -> NathanBoost
    [] dim = 101 /\ (Includes(text, "Robert") \/ Includes(text, "robert")) -> NathanBoost
    [] dim = 200 /\ (Includes(text, "stress") \/ Includes(text, "financial")) -> TopicBoost
    [] dim = 201 /\ (Includes(text, "work") \/ Includes(text, "employment")) -> TopicBoost
    [] dim = 202 /\ (Includes(text, "sobriety") \/ Includes(text, "meetings")) -> TopicBoost
    [] dim = 300 /\ (Includes(text, "policy") \/ Includes(text, "procedure")) -> TopicBoost
    [] dim = 301 /\ (Includes(text, "grievance") \/ Includes(text, "appeal")) -> TopicBoost
    [] dim = 302 /\ (Includes(text, "programming") \/ Includes(text, "treatment")) -> TopicBoost
    [] OTHER -> 0

\* the embedding array before it is normalised
Features(text) ==
  LET hashes == HashDimensions(SplitWords(text))
  IN  [d \in 1..Dimension |-> WordFeature(hashes, d - 1) + ContextFeature(text, d - 1)]

\* embedding.map(val => magnitude > 0 ? val / magnitude : 0), rounded down
Normalized(embedding) ==
  LET RECURSIVE SumOver(_)
      SumOver(S) == IF S = {} THEN 0
                    ELSE LET d == CHOOSE x \in S : TRUE
                         IN  embedding[d] * embedding[d] + SumOver(S \ {d})
      magnitude2 == SumOver({d \in 1..Len(embedding) : embedding[d] # 0})
  IN  [d \in 1..Len(embedding) |->
        IF magnitude2 > 0
        THEN Bisect(0, EmbeddingScale,
                    embedding[d] * embedding[d] * EmbeddingScale * EmbeddingScale,
                    magnitude2)
        ELSE 0]

DemoVectorService_generateSingleEmbedding(text) == Normalized(Features(text))

\* variant with const embedding = new Array(384).fill(0) hoisted out of
\* generateSingleEmbedding: the features of the earlier texts of the batch stay
\* in the array.  C17 fails with it
generateEmbeddings_sharedArray(texts) ==
  LET RECURSIVE Accumulated(_)
      Accumulated(i) ==
        IF i = 0 THEN [d \in 1..Dimension |-> 0]
        ELSE LET before == Accumulated(i - 1)
                 own == Features(texts[i])
             IN  [d \in 1..Dimension |-> before[d] + own[d]]
  IN  [i \in 1..Len(texts) |-> Normalized(Accumulated(i))]

\* texts.map(text => this.generateSingleEmbedding(text))
DemoVectorService_generateEmbeddings(texts) ==
  [i \in 1..Len(texts) |-> DemoVectorService_generateSingleEmbedding(texts[i])]

DemoVectorService_generateQueryEmbedding(query) ==
  DemoVectorService_generateSingleEmbedding(query)

\* the vector text-embedding-3-small has for a text
RemoteEmbedding(text) ==
  <<Len(text), IF Includes(text, "Nathan") THEN 1 ELSE 0>>

\* what openai.embeddings.create answers with for input texts: one item per
\* text, a payload that lacks the last item, a payload without items, an error
EmbeddingResponses(texts) ==
  LET data == [i \in 1..Len(texts) |->
                 [index |-> i - 1, embedding |-> RemoteEmbedding(texts[i])]]
  IN  {[ok |-> TRUE, data |-> data],
       [ok |-> TRUE, data |-> SubSeq(data, 1, Len(data) - 1)],
       [ok |-> TRUE, data |-> <<>>],
       [ok |-> FALSE, data |-> <<>>]}

\* return response.data.map(item => item.embedding), or the wrapped error
VectorService_generateEmbeddings(texts, response) ==
  IF response.ok
  THEN [outcome |-> "returned",
        value |-> [i \in 1..Len(response.data) |-> response.data[i].embedding]]
  ELSE [outcome |-> "thrown", value |-> <<>>]

\* const embeddings = await this.generateEmbeddings([query]); return embeddings[0]
VectorService_generateQueryEmbedding(query, response) ==
  LET embeddings == VectorService_generateEmbeddings(<<query>>, response)
  IN  IF embeddings.outcome = "thrown" THEN [outcome |-> "thrown", defined |-> FALSE, value |-> <<>>]
      ELSE IF Len(embeddings.value) = 0
      THEN [outcome |-> "returned", defined |-> FALSE, value |-> <<>>]
      ELSE [outcome |-> "returned", defined |-> TRUE, value |-> embeddings.value[1]]

EmbedTexts ==
  {<<>>, <<"hello">>, <<"Nathan", "stress">>, <<"stress", "Nathan">>, <<"policy", "work">>}

InitEmbed ==
  /\ ServerIdle
  /\ \E texts \in SeqsUpTo(EmbedTexts, MaxBatch) :
       pure = [op |-> "input", in |-> [texts |-> texts], out |-> <<>>]

CallDemoGenerateEmbeddings ==
  /\ pure.op = "input"
  /\ pure' = Applied("DemoVectorService.generateEmbeddings",
       [outcome |-> "returned",
        value |-> DemoVectorService_generateEmbeddings(pure.in.texts)])
  /\ UNCHANGED <<storeVars, vectorChunks, chatMessages, route, enh>>

CallDemoGenerateQueryEmbedding ==
  /\ pure.op = "input"
  /\ Len(pure.in.texts) = 1
  /\ pure' = Applied("DemoVectorService.generateQueryEmbedding",
       [outcome |-> "returned",
        value |-> DemoVectorService_generateQueryEmbedding(pure.in.texts[1])])
  /\ UNCHANGED <<storeVars, vectorChunks, chatMessages, route, enh>>

CallVectorGenerateEmbeddings ==
  /\ pure.op = "input"
  /\ \E response \in EmbeddingResponses(pure.in.texts) :
       pure' = Applied("VectorService.generateEmbeddings",
         VectorService_generateEmbeddings(pure.in.texts, response))
  /\ UNCHANGED <<storeVars, vectorChunks, chatMessages, route, enh>>

CallVectorGenerateQueryEmbedding ==
  /\ pure.op = "input"
  /\ Len(pure.in.texts) = 1
  /\ \E response \in EmbeddingResponses(pure.in.texts) :
       pure' = Applied("VectorService.generateQueryEmbedding",
         [result |-> VectorService_generateQueryEmbedding(pure.in.texts[1], response),
          embeddings |-> VectorService_generateEmbeddings(pure.in.texts, response)])
  /\ UNCHANGED <<storeVars, vectorChunks, chatMessages, route, enh>>

NextEmbed ==
  \/ CallDemoGenerateEmbeddings
  \/ CallDemoGenerateQueryEmbedding
  \/ CallVectorGenerateEmbeddings
  \/ CallVectorGenerateQueryEmbedding

SpecEmbed == InitEmbed /\ [][NextEmbed]_vars

\* result[i] is the vector of texts[i], one per text
OnePerText(result, texts, vectors) ==
  /\ Len(result) = Len(texts)
  /\ \A i \in 1..Len(texts) : i <= Len(result) => result[i] = vectors[i]

(* C16: generateEmbeddings(texts) returns exactly one vector per input text, in
   the order of the texts, and generateQueryEmbedding(t) is
   generateEmbeddings([t])[0]. *)
C16_EmbeddingContract ==
  /\ pure.op = "DemoVectorService.generateEmbeddings"
       => OnePerText(pure.out.value, pure.in.texts,
            [i \in 1..Len(pure.in.texts) |->
               DemoVectorService_generateSingleEmbedding(pure.in.texts[i])])
  /\ pure.op = "DemoVectorService.generateQueryEmbedding"
       => pure.out.value = DemoVectorService_generateEmbeddings(pure.in.texts)[1]
  /\ (pure.op = "VectorService.generateEmbeddings" /\ pure.out.outcome = "returned")
       => OnePerText(pure.out.value, pure.in.texts,
            [i \in 1..Len(pure.in.texts) |-> RemoteEmbedding(pure.in.texts[i])])
  /\ (pure.op = "VectorService.generateQueryEmbedding"
        /\ pure.out.result.outcome = "returned")
       => /\ pure.out.result.defined
          /\ pure.out.result.value = pure.out.embeddings.value[1]

-----------------------------------------------------------------------------
(* SpecEmbedCalls: two calls of the local embedding, one after the other *)

CallTexts == {<<"hello">>, <<"Nathan", "stress">>, <<"stress", "Nathan">>}

InitEmbedCalls ==
  /\ ServerIdle
  /\ pure = [op |-> "input", in |-> <<>>, out |-> <<>>]

\* await DemoVectorService.generateEmbeddings(texts)
EmbedBatch ==
  /\ pure.op \in {"input", "first call"}
  /\ \E texts \in SeqsUpTo(CallTexts, MaxBatch) :
       pure' = [op |-> IF pure.op = "input" THEN "first call" ELSE "second call",
                in |-> pure.in,
                out |-> Append(pure.out,
                  [texts |-> texts, value |-> DemoVectorService_generateEmbeddings(texts)])]
  /\ UNCHANGED <<storeVars, vectorChunks, chatMessages, route, enh>>

\* await DemoVectorService.generateQueryEmbedding(query)
EmbedQuery ==
  /\ pure.op \in {"input", "first call"}
  /\ \E query \in CallTexts :
       pure' = [op |-> IF pure.op = "input" THEN "first call" ELSE "second call",
                in |-> pure.in,
                out |-> Append(pure.out,
                  [texts |-> <<query>>,
                   value |-> <<DemoVectorService_generateQueryEmbedding(query)>>])]
  /\ UNCHANGED <<storeVars, vectorChunks, chatMessages, route, enh>>

NextEmbedCalls == EmbedBatch \/ EmbedQuery

SpecEmbedCalls == InitEmbedCalls /\ [][NextEmbedCalls]_vars

(* C17: DemoVectorService gives a text the same vector on every call, whatever
   was embedded before, whichever other texts are in the batch and wherever the
   text stands in the batch. *)
C17_LocalEmbeddingDeterministic ==
  \A a, b \in 1..Len(pure.out) :
    \A i \in 1..Len(pure.out[a].texts), j \in 1..Len(pure.out[b].texts) :
      pure.out[a].texts[i] = pure.out[b].texts[j]
        => pure.out[a].value[i] = pure.out[b].value[j]

\* a text embedded alone first, then as the second text of a batch that starts
\* with another text
C17_Witness ==
  /\ pure.op = "second call"
  /\ Len(pure.out[1].texts) = 1
  /\ Len(pure.out[2].texts) = 2
  /\ pure.out[2].texts[2] = pure.out[1].texts[1]
  /\ pure.out[2].texts[1] # pure.out[1].texts[1]
  /\ pure.out[2].value[2] = pure.out[1].value[1]
  /\ pure.out[2].value[1] # pure.out[2].value[2]

-----------------------------------------------------------------------------
(* Properties of the generation cascade of processQueryWithFallbacks (Spec) *)

CascadeOrder == <<"OpenAI", "Groq", "Google Gemini", "Cohere", "Together AI">>

\* the calls of generation backends the query has made so far, in order
GenerationCalls(calls) ==
  SelectSeq(calls, LAMBDA c : \E n \in 1..Len(CascadeOrder) : c.backend = CascadeOrder[n])

ContentAnalysisReasoning ==
  "Generated using content analysis fallback when APIs are unavailable."

AnsweredReasoning(n, backend) ==
  "Retrieved " \o ToString(n) \o " relevant chunks. Answer generated using "
    \o backend \o " API with retrieved context."

(* C18: within one query the generation backends are called one at a time in the
   order OpenAI, Groq, Google Gemini, Cohere, Together AI: a backend is called
   only after every backend before it was called and failed, none is called
   twice, and none is called after one has succeeded. *)
C18_SequentialFailFast ==
  LET made == GenerationCalls(enh.calls)
  IN  /\ Len(made) <= Len(CascadeOrder)
      /\ \A i \in 1..Len(made) :
           /\ made[i].backend = CascadeOrder[i]
           /\ i < Len(made) => ~made[i].ok
      /\ enh.pc = "generate" =>
           /\ \A i \in 1..Len(made) : ~made[i].ok
           /\ enh.apiIndex = Len(made) + 1

\* Google Gemini answered after OpenAI and Groq had failed
C18_Witness ==
  /\ enh.pc = "done"
  /\ GenerationCalls(enh.calls)
       = <<[backend |-> "OpenAI", ok |-> FALSE], [backend |-> "Groq", ok |-> FALSE],
           [backend |-> "Google Gemini", ok |-> TRUE]>>

(* C19: once the generation phase of processQueryWithFallbacks has begun, the
   query ends in content analysis only when all five backends were tried and
   failed; when a backend call returns, the query ends answered and not in
   content analysis. *)
C19_ContentAnalysisOnlyAfterExhaustion ==
  LET made == GenerationCalls(enh.calls)
  IN  (enh.pc = "done" /\ made # <<>>) =>
        /\ enh.outcome = "returned"
        /\ enh.response.reasoning = ContentAnalysisReasoning =>
             /\ Len(made) = Len(CascadeOrder)
             /\ \A i \in 1..Len(made) : ~made[i].ok
        /\ (\E i \in 1..Len(made) : made[i].ok) =>
             /\ enh.response.reasoning # ContentAnalysisReasoning
             /\ enh.response.answer # ""
             /\ enh.response.reasoning
                  = AnsweredReasoning(Len(enh.allRelevantChunks), made[Len(made)].backend)

\* Cohere returned its placeholder text after three failures: answered all the same
C19_Witness ==
  /\ enh.pc = "done"
  /\ Len(GenerationCalls(enh.calls)) = 4
  /\ enh.calls[Len(enh.calls)] = [backend |-> "Cohere", ok |-> TRUE]
  /\ enh.response.answer = "No response generated"
  /\ enh.response.reasoning # ContentAnalysisReasoning

(* C20: when a query ends answered, the answer is the text the first backend
   that succeeded returned, the reasoning names that backend, the sources are
   those of the ranked chunks, and no backend that failed before it shows in the
   answer or the reasoning. *)
C20_AnsweredAttribution ==
  LET made == GenerationCalls(enh.calls)
  IN  (enh.pc = "done" /\ \E i \in 1..Len(made) : made[i].ok) =>
        LET used == made[Len(made)].backend
        IN  /\ made[Len(made)].ok
            /\ enh.response.answer \in {TextFrom(used), "No response generated"}
            /\ enh.response.reasoning
                 = AnsweredReasoning(Len(enh.allRelevantChunks), used)
            /\ enh.response.sources
                 = [i \in 1..Len(enh.allRelevantChunks) |->
                      Source(enh.allRelevantChunks[i],
                             Excerpt(enh.allRelevantChunks[i].text, ExcerptLimit))]
            /\ \A i \in 1..(Len(made) - 1) :
                 /\ enh.response.answer # TextFrom(made[i].backend)
                 /\ enh.response.reasoning
                      # AnsweredReasoning(Len(enh.allRelevantChunks), made[i].backend)

\* Together AI answered with its text after the four backends before it failed
C20_Witness ==
  /\ enh.pc = "done"
  /\ Len(GenerationCalls(enh.calls)) = 5
  /\ enh.response.answer = TextFrom("Together AI")
  /\ Len(enh.response.sources) = 2

-----------------------------------------------------------------------------
(* Properties of the retrieval phase (Spec) *)

EmbeddingProviders == <<"OpenAI embeddings", "Hugging Face embeddings">>

\* the calls of embedding providers a query has made so far, in order
EmbeddingCalls(calls) ==
  SelectSeq(calls,
    LAMBDA c : \E n \in 1..Len(EmbeddingProviders) : c.backend = EmbeddingProviders[n])

\* the query ended in content analysis without having reached the generation phase
ContentAnalysisFromRetrieval(e) ==
  /\ e.pc = "done"
  /\ e.fetched
  /\ hasEmbeddings(e.allChunks)
  /\ GenerationCalls(e.calls) = <<>>
  /\ e.outcome = "returned"
  /\ e.response.reasoning = ContentAnalysisReasoning

(* C21: with embedded chunks, processQueryWithFallbacks tries the OpenAI
   embedding provider first, Hugging Face only after the OpenAI attempt failed,
   and enters content analysis over all chunks from the retrieval phase only
   when both providers have failed. *)
C21_RetrievalCascade ==
  LET tried == EmbeddingCalls(enh.calls)
  IN  /\ Len(tried) <= Len(EmbeddingProviders)
      /\ \A i \in 1..Len(tried) :
           /\ tried[i].backend = EmbeddingProviders[i]
           /\ i < Len(tried) => ~tried[i].ok
      /\ enh.pc = "embedHF" => tried = <<[backend |-> "OpenAI embeddings", ok |-> FALSE]>>
      /\ enh.pc = "generate" => (tried # <<>> /\ tried[Len(tried)].ok)
      /\ ContentAnalysisFromRetrieval(enh) =>
           /\ tried = <<[backend |-> "OpenAI embeddings", ok |-> FALSE],
                        [backend |-> "Hugging Face embeddings", ok |-> FALSE]>>
           /\ enh.response
                = EnhancedRAGService_generateContentAnalysisResponse(
                    enh.query, enh.allChunks)

\* content analysis over the two stored chunks after both providers failed
C21_Witness ==
  /\ ContentAnalysisFromRetrieval(enh)
  /\ Len(EmbeddingCalls(enh.calls)) = 2
  /\ Len(enh.response.sources) = 2

\* chunks exist and none carries a vector
NoneEmbedded(chunks) ==
  /\ chunks # <<>>
  /\ \A i \in 1..Len(chunks) : chunks[i].embedding = <<>>

(* C22: when chunks exist and none carries a non-empty embedding, the query goes
   straight to content analysis over all chunks: no embedding backend and no
   generation backend is called for it. *)
C22_NoEmbeddings ==
  /\ (route.fetched /\ NoneEmbedded(route.allChunks)) =>
       /\ route.pc \in {"store", "done"}
       /\ route.calls = <<>>
       /\ route.outcome = "returned"
       /\ route.response = RAGService_generateContentAnalysisResponse(
                             route.body.value, WithPlaceholder(route.allChunks))
  /\ (enh.fetched /\ NoneEmbedded(enh.allChunks)) =>
       /\ enh.pc = "done"
       /\ enh.calls = <<>>
       /\ enh.outcome = "returned"
       /\ enh.response = EnhancedRAGService_generateContentAnalysisResponse(
                           enh.query, enh.allChunks)

\* the route answered 200 from the one stored chunk, which has no vector
C22_Witness ==
  /\ route.pc = "done"
  /\ route.status = 200
  /\ route.fetched
  /\ NoneEmbedded(route.allChunks)
  /\ route.calls = <<>>

\* the embedding call of the query returned and the fused list came out empty
RankedEmpty(r) ==
  LET tried == EmbeddingCalls(r.calls)
  IN  /\ tried # <<>>
      /\ tried[Len(tried)].ok
      /\ r.allRelevantChunks = <<>>

(* C23: when the vector search succeeds and no chunk reaches the threshold, the
   query ends with the fixed 'no relevant information' answer and no sources;
   neither a generation backend nor content analysis is called. *)
C23_RankedEmptyTerminal ==
  /\ RankedEmpty(route) =>
       /\ route.pc \in {"store", "done"}
       /\ route.outcome = "returned"
       /\ route.response = NoRelevantResponse
       /\ route.response.sources = <<>>
       /\ GenerationCalls(route.calls) = <<>>
  /\ RankedEmpty(enh) =>
       /\ enh.pc = "done"
       /\ enh.outcome = "returned"
       /\ enh.response = NoRelevantResponse
       /\ enh.response.sources = <<>>
       /\ enh.response.reasoning # ContentAnalysisReasoning
       /\ GenerationCalls(enh.calls) = <<>>

\* the Hugging Face vector ranked the two stored chunks below the threshold
C23_Witness ==
  /\ RankedEmpty(enh)
  /\ Len(enh.allChunks) = 2
  /\ Len(EmbeddingCalls(enh.calls)) = 2
  /\ enh.response.answer = NoRelevantResponse.answer

\* no embedding call is logged after a generation call
NoEmbeddingAfterGeneration(calls) ==
  \A i, j \in 1..Len(calls) :
    (i < j /\ GenerationCalls(<<calls[i]>>) # <<>>) => EmbeddingCalls(<<calls[j]>>) = <<>>

(* C24: when content analysis is entered because generation failed, it is given
   the fused ranked list computed earlier in the same query (same chunks, order
   and similarities); no further embedding call and no further storage read is
   made. *)
C24_NoReRetrieval ==
  /\ (enh.pc = "done" /\ CascadeExhausted(enh.calls)) =>
       /\ enh.response = EnhancedRAGService_generateContentAnalysisResponse(
                           enh.query, enh.allRelevantChunks)
       /\ enh.allRelevantChunks = FuseRanked(enh.transcriptChunks, enh.policyChunks)
       /\ enh.reads = 1
       /\ NoEmbeddingAfterGeneration(enh.calls)
       /\ Len(enh.calls) = Len(EmbeddingCalls(enh.calls)) + Len(CascadeOrder)
  /\ (route.pc \in {"store", "done"} /\ Raised(route.calls, "OpenAI")) =>
       /\ route.response = RAGService_generateContentAnalysisResponse(
                             route.body.value, route.allRelevantChunks)
       /\ route.allRelevantChunks
            = FuseRanked(route.transcriptChunks, route.policyChunks)
       /\ route.reads = 1
       /\ route.calls = <<[backend |-> "OpenAI embeddings", ok |-> TRUE],
                          [backend |-> "OpenAI", ok |-> FALSE]>>

\* content analysis over two ranked chunks of different similarity after the five
\* backends failed
C24_Witness ==
  /\ enh.pc = "done"
  /\ CascadeExhausted(enh.calls)
  /\ Len(enh.response.sources) = 2
  /\ enh.response.sources[1].similarity # enh.response.sources[2].similarity
  /\ enh.allRelevantChunks # enh.allChunks

(* C25: when every embedding provider has failed, the generation backends are
   still tried, over the chunks with a uniform score, before the query falls
   back to content analysis. *)
C25_IndependentCascades ==
  /\ (/\ enh.pc = "done"
      /\ Raised(enh.calls, "OpenAI embeddings")
      /\ Raised(enh.calls, "Hugging Face embeddings"))
       => GenerationCalls(enh.calls) # <<>>
  /\ (route.pc \in {"store", "done"} /\ Raised(route.calls, "OpenAI embeddings"))
       => GenerationCalls(route.calls) # <<>>

\* the embedding calls of one query that answered with a vector
EmbeddedOk(calls) == SelectSeq(EmbeddingCalls(calls), LAMBDA c : c.ok)

\* no ranking pass, or one transcript pass and one policy pass with one vector
OneVectorPasses(passes) ==
  \/ passes = <<>>
  \/ \E v \in QueryEmbeddings : passes = RankingPasses(v, v)

(* C26 as stated: one query triggers at most one embedding call and at most two
   ranking passes, one for transcript and one for policy, both with the same
   query vector, in processQuery and in processQueryWithFallbacks. *)
C26_SingleEmbeddingCall ==
  /\ Len(EmbeddingCalls(route.calls)) <= 1
  /\ Len(EmbeddingCalls(enh.calls)) <= 1
  /\ OneVectorPasses(route.passes)
  /\ OneVectorPasses(enh.passes)

(* C26 amended: one query calls each embedding provider at most once, the next
   provider only after the one before it raised, so at most one call answers
   with a vector; the ranking passes are none before that answer and, after it,
   one transcript pass and one policy pass with that one vector. *)
C26_OneEmbeddingPerProvider ==
  /\ \A x \in {[calls |-> route.calls, passes |-> route.passes, providers |-> 1],
               [calls |-> enh.calls, passes |-> enh.passes,
                providers |-> Len(EmbeddingProviders)]} :
       LET embedded == EmbeddingCalls(x.calls)
       IN  /\ Len(embedded) <= x.providers
           /\ \A n \in 1..Len(embedded) :
                /\ embedded[n].backend = EmbeddingProviders[n]
                /\ n < Len(embedded) => ~embedded[n].ok
           /\ Len(EmbeddedOk(x.calls)) <= 1
           /\ OneVectorPasses(x.passes)
           /\ (x.passes # <<>>) <=> (EmbeddedOk(x.calls) # <<>>)

\* the second provider answered after the first one raised, and both passes ran
C26_Witness ==
  /\ enh.pc = "done"
  /\ Len(EmbeddingCalls(enh.calls)) = 2
  /\ Len(EmbeddedOk(enh.calls)) = 1
  /\ Len(enh.passes) = 2
  /\ enh.transcriptChunks # <<>>
  /\ enh.policyChunks # <<>>


(* ------------------------------------------------------------------------- *)
(* Properties of the ranking on chunks without an embedding (SpecRank)       *)

(* C27: for every query vector, topK and threshold, a threshold of 0 included,
   findSimilarChunks never returns a chunk whose embedding is empty. *)
C27_EmptyEmbeddingExcluded ==
  pure.op \in FindOps =>
    \A i \in 1..Len(pure.out) : pure.out[i].embedding # <<>>


(* ------------------------------------------------------------------------- *)
(* SpecDemo: DemoProcessor.findRelevantChunks on every query and chunk list   *)
(* of the bounds                                                              *)

KeywordWeight == 300   \* score += 0.3
StressBoost == 400     \* score += 0.4
NameBoost == 500       \* score += 0.5
ScoreCap == 950        \* Math.min(score, 0.95)
ScoreFloor == 200      \* chunk.similarity > 0.2
RelevantTop == 5       \* .slice(0, 5)

MaxDemoChunks == 6  \* chunks handed to findRelevantChunks

\* query.toLowerCase().split(/\s+/): the words of the query, with the word ''
\* in front when the query starts with white space and at the end when it ends
\* with it; the empty query splits into the one word ''.  A unit " " is a
\* stretch of white space beyond the single blank between two words.
DemoProcessor_queryWords(query) ==
  LET words == SelectSeq(Lower(query), LAMBDA u : u # " ")
  IN  IF query = <<>> THEN <<"">>
      ELSE (IF Head(query) = " " THEN <<"">> ELSE <<>>)
           \o words
           \o (IF query[Len(query)] = " " THEN <<"">> ELSE <<>>)

\* the sum after queryWords.forEach: 0.3 added once per word the text includes
\* (every text includes ''); 0.3 + 0.3 + 0.3 is 0.8999999999999999, which the
\* thousandths keep just below 0.9
DemoProcessor_keywordScore(queryWords, chunkText) ==
  LET matches == Cardinality({i \in 1..Len(queryWords) :
                   queryWords[i] = "" \/ Includes(chunkText, queryWords[i])})
  IN  IF matches = 3 THEN 3 * KeywordWeight - 1 ELSE matches * KeywordWeight

\* the score of one chunk before Math.min; 'work stress' includes 'stress'
DemoProcessor_score(query, chunk) ==
  LET queryLower == Lower(query)
      chunkText == Lower(chunk.text)
      documentName == Lower(chunk.metadata.documentName)
  IN  DemoProcessor_keywordScore(DemoProcessor_queryWords(query), chunkText)
      + (IF /\ Includes(queryLower, "stress")
            /\ \/ Includes(chunkText, "stress") \/ Includes(chunkText, "work")
               \/ Includes(chunkText, "taxes") \/ Includes(chunkText, "money")
         THEN StressBoost ELSE 0)
      + (IF Includes(queryLower, "nathan") /\ Includes(documentName, "nathan")
         THEN NameBoost ELSE 0)
      + (IF Includes(queryLower, "robert") /\ Includes(documentName, "robert")
         THEN NameBoost ELSE 0)

\* variant returning similarity: score without Math.min: C28 fails with it
findRelevantChunks_withoutCap(query, chunks) ==
  LET scoredChunks == [i \in 1..Len(chunks) |->
        WithSimilarity(chunks[i], Num(DemoProcessor_score(query, chunks[i])))]
  IN  Slice(SortBySimilarityDesc(
              SelectSeq(scoredChunks, LAMBDA c : c.similarity.v > ScoreFloor)),
            RelevantTop)

DemoProcessor_findRelevantChunks(query, chunks) ==
  LET scoredChunks == [i \in 1..Len(chunks) |->
        WithSimilarity(chunks[i],
                       Num(Min(DemoProcessor_score(query, chunks[i]), ScoreCap)))]
  IN  Slice(SortBySimilarityDesc(
              SelectSeq(scoredChunks, LAMBDA c : c.similarity.v > ScoreFloor)),
            RelevantTop)

DemoQueryUnits == {"Nathan", "stress", " "}

DemoChunkKinds ==
  {[type |-> "transcript", documentName |-> <<"Nathan", "transcript">>,
    text |-> <<"Nathan", "stress">>],
   [type |-> "transcript", documentName |-> <<"Robert", "transcript">>,
    text |-> <<"taxes">>],
   [type |-> "policy", documentName |-> <<"policy">>, text |-> <<"Hello">>]}

DemoChunks(kinds) ==
  [i \in 1..Len(kinds) |->
     Chunk(i, kinds[i].text, <<>>, i, kinds[i].documentName, kinds[i].type, 0)]

InitDemo ==
  /\ ServerIdle
  /\ pure \in [op : {"input"},
               in : [query : SeqsUpTo(DemoQueryUnits, MaxQueryWords),
                     chunks : {DemoChunks(k) :
                        k \in SeqsUpTo(DemoChunkKinds, MaxDemoChunks)}],
               out : {<<>>}]

CallFindRelevantChunks ==
  /\ pure.op = "input"
  /\ pure' = Applied("DemoProcessor.findRelevantChunks",
       DemoProcessor_findRelevantChunks(pure.in.query, pure.in.chunks))
  /\ UNCHANGED <<storeVars, vectorChunks, chatMessages, route, enh>>

NextDemo == CallFindRelevantChunks

SpecDemo == InitDemo /\ [][NextDemo]_vars

\* the chunk's lowercased text contains one of the words of the query
HasQueryWord(query, chunk) ==
  \E i \in 1..Len(query) :
    query[i] # " " /\ Includes(Lower(chunk.text), LowerOf(query[i]))

(* C28: for every query and chunk list DemoProcessor.findRelevantChunks returns
   at most 5 chunks, sorted non-increasing by score, each with
   0.2 < score <= 0.95; a chunk whose lowercased text contains a query word is
   returned whenever at most 5 chunks score above 0.2. *)
C28_FallbackScoringBounds ==
  pure.op = "DemoProcessor.findRelevantChunks" =>
    LET query == pure.in.query
        chunks == pure.in.chunks
        above == {i \in 1..Len(chunks) :
                    DemoProcessor_score(query, chunks[i]) > ScoreFloor}
    IN  /\ Len(pure.out) <= RelevantTop
        /\ NonIncreasing(SimsOf(pure.out))
        /\ \A j \in 1..Len(pure.out) :
             /\ IsNumber(pure.out[j].similarity)
             /\ pure.out[j].similarity.v > ScoreFloor
             /\ pure.out[j].similarity.v <= ScoreCap
        /\ Cardinality(above) <= RelevantTop =>
             \A i \in 1..Len(chunks) :
               HasQueryWord(query, chunks[i]) =>
                 \E j \in 1..Len(pure.out) : pure.out[j].id = chunks[i].id

\* six chunks scored, five returned: the first capped at 0.95, the last below
\* the cap, and a chunk without any match left out
C28_Witness ==
  /\ pure.op = "DemoProcessor.findRelevantChunks"
  /\ Len(pure.in.chunks) = MaxDemoChunks
  /\ Len(pure.out) = RelevantTop
  /\ pure.out[1].similarity = Num(ScoreCap)
  /\ pure.out[RelevantTop].similarity.v < ScoreCap
  /\ \E i \in 1..Len(pure.in.chunks) :
       DemoProcessor_score(pure.in.query, pure.in.chunks[i]) = 0


(* ------------------------------------------------------------------------- *)
(* Properties of the sources of the content-analysis responses (SpecContent)  *)

ContentOps == {"RAGService.generateContentAnalysisResponse",
               "EnhancedRAGService.generateContentAnalysisResponse"}

(* C29: the response of the content-analysis fallback cites at most 5 sources,
   whichever chunk set it was entered with. *)
C29_AtMostFiveSources ==
  pure.op \in ContentOps => Len(pure.out.sources) <= TopChunks

\* the excerpt limit of the path source number i of the response went through:
\* the mapped sources first, then the pushed ones through cleanSourceText
LimitOfSource(i) ==
  IF pure.op = "EnhancedRAGService.generateContentAnalysisResponse"
  THEN EnhancedExcerptLimit
  ELSE IF i <= Len(pure.in.relevantChunks) THEN ExcerptLimit ELSE CleanLimit

(* C30: in every response each source text is at most the excerpt limit of its
   path plus the three-character ellipsis, and it ends with the added '...' if
   and only if the chunk text was longer than that limit; a chunk text within
   the limit is returned unchanged. *)
C30_ExcerptMarkedOnlyWhenCut ==
  pure.op \in ContentOps =>
    \A i \in 1..Len(pure.out.sources) :
      LET source == pure.out.sources[i]
          chunk == pure.in.relevantChunks[source.chunkId]
          limit == LimitOfSource(i)
      IN  /\ Len(source.text) <= limit + Len(Ellipsis)
          /\ Len(chunk.text) <= limit => source.text = chunk.text
          /\ Len(chunk.text) > limit =>
               source.text = SubSeq(chunk.text, 1, limit) \o Ellipsis


(* ------------------------------------------------------------------------- *)
(* Properties of the answer templates of the content analysis (SpecContent)   *)

Entities == {"robert", "nathan"}

\* the reasoning of the entity-specific extraction
DirectReasoning(entity) ==
  IF entity = "robert"
  THEN "Direct content analysis of Robert's transcript chunks."
  ELSE "Direct content analysis of Nathan's transcript chunks."

\* the query names the entity and a supplied chunk comes from a document whose
\* name contains it
EntityMatch(query, chunks, entity) ==
  /\ Includes(Lower(query), entity)
  /\ \E i \in 1..Len(chunks) :
       Includes(Lower(chunks[i].metadata.documentName), entity)

(* C31: in the content-analysis fallback, when the query names robert or nathan
   and a supplied chunk's document name contains that entity, the
   entity-specific extraction is selected, for an entity the query names,
   whatever topic keywords the query also contains. *)
C31_TemplatePriority ==
  (/\ pure.op = "RAGService.generateContentAnalysisResponse"
   /\ \E e \in Entities : EntityMatch(pure.in.query, pure.in.relevantChunks, e))
  => /\ \E e \in Entities :
          /\ Includes(Lower(pure.in.query), e)
          /\ pure.out.reasoning = DirectReasoning(e)
     /\ pure.out.answer # ""
     /\ Len(pure.out.sources) > Len(pure.in.relevantChunks)

\* a query naming Robert and a topic, over a chunk whose document name, and not
\* its text, contains robert
C31_Witness ==
  /\ pure.op = "RAGService.generateContentAnalysisResponse"
  /\ pure.in.query = <<"Robert", "grievance">>
  /\ Len(pure.in.relevantChunks) = 1
  /\ ~Includes(Lower(pure.in.relevantChunks[1].text), "robert")
  /\ pure.in.relevantChunks[1].metadata.type = "policy"
  /\ pure.out.reasoning = DirectReasoning("robert")

\* the keywords the templates of the content analysis look for in a query
TopicKeywords ==
  {"transport", "travel", "session", "stress", "anxiety", "work", "employ",
   "grievance", "appeal", "time", "deadline", "program", "treatment", "substance",
   "abuse", "check", "guideline", "compare", "both", "challenge", "problem",
   "meeting", "policy", "procedure"}

\* the generic summary over chunks of which the given numbers are transcript and
\* policy chunks
GenericSummary(transcriptCount, policyCount) ==
  "Based on the available Community Corrections documents ("
    \o ToString(transcriptCount) \o " transcript sections, "
    \o ToString(policyCount)
    \o " policy sections), I found relevant content but need more specific context to provide a detailed answer."

(* C32: in the content-analysis fallback over a non-empty chunk set, when the
   query matches no entity and no topic keyword, the answer is the generic
   summary that names how many transcript and how many policy chunks were
   found. *)
C32_GenericTemplate ==
  (/\ pure.op = "RAGService.generateContentAnalysisResponse"
   /\ pure.in.relevantChunks # <<>>
   /\ \A k \in Entities \cup TopicKeywords : ~Includes(Lower(pure.in.query), k))
  => pure.out.answer
       = GenericSummary(Len(OfType(pure.in.relevantChunks, "transcript")),
                        Len(OfType(pure.in.relevantChunks, "policy")))


(* ------------------------------------------------------------------------- *)
(* Properties of the generation backends' replies (Spec)                      *)

\* what a backend returns for a successful reply that carries no generated text
NoTextPlaceholder == "No response generated"

(* C33: a generation backend that answers with a success status but a payload
   without generated text counts as failed and the cascade advances; such a
   reply never ends the query answered. *)
C33_MalformedPayloadIsFailure ==
  enh.pc = "done" =>
    ~(/\ enh.response.answer = NoTextPlaceholder
      /\ \E n \in 1..Len(apis) :
           enh.response.reasoning
             = AnsweredReasoning(Len(enh.allRelevantChunks), apis[n]))


(* C34: the sources list of every response contains each chunk at most once: no
   two entries of sources share a chunkId, the entity-specific content-analysis
   answers included. *)
C34_SourcesDistinct ==
  pure.op \in ContentOps =>
    \A i, j \in 1..Len(pure.out.sources) :
      pure.out.sources[i].chunkId = pure.out.sources[j].chunkId => i = j


(* C35: in EnhancedRAGService the OpenAI generation attempt raises for every
   query and context: no response is attributed to OpenAI, and the first backend
   that can produce an answer is Groq. *)
C35_PrimaryNeverSucceeds ==
  LET made == GenerationCalls(enh.calls)
  IN  /\ \A i \in 1..Len(made) : made[i].backend = "OpenAI" => ~made[i].ok
      /\ enh.pc = "done" =>
           enh.response.reasoning
             # AnsweredReasoning(Len(enh.allRelevantChunks), "OpenAI")
      /\ \A i \in 1..Len(made) :
           made[i].ok => /\ i >= 2
                         /\ made[1] = [backend |-> "OpenAI", ok |-> FALSE]
                         /\ made[2].backend = "Groq"

\* Groq answered with its text right after the OpenAI attempt raised
C35_Witness ==
  /\ enh.pc = "done"
  /\ GenerationCalls(enh.calls)
       = <<[backend |-> "OpenAI", ok |-> FALSE], [backend |-> "Groq", ok |-> TRUE]>>
  /\ enh.response.answer = TextFrom("Groq")
  /\ enh.response.reasoning = AnsweredReasoning(Len(enh.allRelevantChunks), "Groq")


(* ------------------------------------------------------------------------- *)
(* SpecRetrieve: the two rankings and the fusion of one query, as processQuery *)
(* and processQueryWithFallbacks chain them, on corpora with more chunks of a  *)
(* category than the per-category limit                                        *)

MaxRetrieveChunks == 7  \* chunks of the corpus one retrieval ranks

RetrieveQueries == {<<1, 0>>, <<1, 1>>}

RetrieveChunkKinds ==
  {[embedding |-> <<1, 0>>, type |-> "transcript"],
   [embedding |-> <<1, 0>>, type |-> "policy"],
   [embedding |-> <<0, 1>>, type |-> "transcript"]}

InitRetrieve ==
  /\ ServerIdle
  /\ pure \in [op : {"input"},
               in : [queryEmbedding : RetrieveQueries,
                     chunks : {RankChunks(k) :
                        k \in SeqsUpTo(RetrieveChunkKinds, MaxRetrieveChunks)}],
               out : {<<>>}]

\* result = await VectorService.multiHopRetrieval(query, allChunks), then the
\* fusion of generateRAGResponse or of processQueryWithFallbacks
RetrieveWithOpenAI ==
  /\ pure.op = "input"
  /\ LET result == VectorService_multiHopRetrieval(pure.in.queryEmbedding,
                                                   pure.in.chunks)
     IN  pure' = Applied("VectorService.multiHopRetrieval",
           [transcriptChunks |-> result.transcriptChunks,
            policyChunks |-> result.policyChunks,
            allRelevantChunks |-> FuseRanked(result.transcriptChunks,
                                             result.policyChunks)])
  /\ UNCHANGED <<storeVars, vectorChunks, chatMessages, route, enh>>

\* the two findSimilarChunksByType calls of the Hugging Face attempt, then the
\* fusion of processQueryWithFallbacks
RetrieveWithHuggingFace ==
  /\ pure.op = "input"
  /\ LET transcriptChunks == EnhancedRAGService_findSimilarChunksByType(
           pure.in.queryEmbedding, pure.in.chunks, "transcript", DefaultTopK)
         policyChunks == EnhancedRAGService_findSimilarChunksByType(
           pure.in.queryEmbedding, pure.in.chunks, "policy", DefaultTopK)
     IN  pure' = Applied("EnhancedRAGService.findSimilarChunksByType",
           [transcriptChunks |-> transcriptChunks,
            policyChunks |-> policyChunks,
            allRelevantChunks |-> FuseRanked(transcriptChunks, policyChunks)])
  /\ UNCHANGED <<storeVars, vectorChunks, chatMessages, route, enh>>

NextRetrieve == RetrieveWithOpenAI \/ RetrieveWithHuggingFace

SpecRetrieve == InitRetrieve /\ [][NextRetrieve]_vars

(* C36: with the default per-category limits of 3 the fused list has at most 6
   entries, at most 3 of each category, and the truncation to 8 removes no chunk
   that passed ranking. *)
C36_FusionWithinLimits ==
  pure.op # "input" =>
    LET fused == pure.out.allRelevantChunks
        ranked == pure.out.transcriptChunks \o pure.out.policyChunks
    IN  /\ Len(fused) <= 2 * DefaultTopK
        /\ Len(fused) < FusionTopN
        /\ \A type \in Types : Len(OfType(fused, type)) <= DefaultTopK
        /\ Len(fused) = Len(ranked)
        /\ \A i \in 1..Len(ranked) : \E j \in 1..Len(fused) : fused[j] = ranked[i]

\* a corpus with four transcript and three policy chunks that all pass the
\* threshold: three of each are ranked and all six are in the fused list
C36_Witness ==
  /\ pure.op = "VectorService.multiHopRetrieval"
  /\ Len(OfType(pure.in.chunks, "transcript")) = DefaultTopK + 1
  /\ \A i \in 1..Len(pure.in.chunks) :
       pure.in.chunks[i].embedding = pure.in.queryEmbedding
  /\ Len(pure.out.transcriptChunks) = DefaultTopK
  /\ Len(pure.out.policyChunks) = DefaultTopK
  /\ Len(pure.out.allRelevantChunks) = 2 * DefaultTopK


(* ------------------------------------------------------------------------- *)
(* SpecProcess: the documents and vector_chunks tables under upload, delete,   *)
(* the process route and DemoProcessor.processDocumentWithDemo                 *)

\* the texts DocumentProcessor.parseDocument('', document.name) can hand back, as
\* lists of passages: some content, or none
ParsedContents == {<<>>, <<<<"Nathan", "stress">>>>}

\* DemoProcessor.processDocumentWithDemo up to await storage.storeVectorChunks:
\* the document is read, its content parsed and chunked, and the chunks are
\* embedded locally; a missing document raises
DemoProcessStart ==
  /\ proc.pc \in {"idle", "done"}
  /\ proc.run < MaxProcessRuns
  /\ \E documentId \in 1..documentSeq, authenticContent \in ParsedContents :
       LET found == getDocument(documents, documentId)
           started == [ProcIdle EXCEPT !.run = proc.run + 1, !.documentId = documentId]
           chunks == chunkDocument(authenticContent, documentId, found[1].name,
                                   found[1].type, chunkSeq)
           embeddings == DemoVectorService_generateEmbeddings(
                           [i \in 1..Len(chunks) |-> chunks[i].text])
       IN  IF found = <<>>
           THEN /\ proc' = [started EXCEPT !.pc = "done", !.status = 500]
                /\ UNCHANGED chunkSeq
           ELSE /\ proc' = [started EXCEPT !.pc = "demoStore", !.chunks = chunks,
                              !.vectorChunks = [i \in 1..Len(chunks) |->
                                 [chunks[i] EXCEPT !.embedding = embeddings[i]]]]
                /\ chunkSeq' = chunkSeq + Len(chunks)
  /\ UNCHANGED <<vectorChunks, chatMessages, route, enh, pure, documents, documentSeq>>

\* await storage.storeVectorChunks(vectorChunks)
DemoProcessStore ==
  /\ proc.pc = "demoStore"
  /\ LET stored == storeVectorChunks(documents, vectorChunks, proc.vectorChunks)
     IN  /\ vectorChunks' = stored.vectorChunks
         /\ proc' = IF stored.ok THEN [proc EXCEPT !.pc = "demoMark"]
                    ELSE [proc EXCEPT !.pc = "done", !.status = 500]
  /\ UNCHANGED <<chatMessages, route, enh, pure, documents, documentSeq, chunkSeq>>

\* await storage.updateDocumentProcessed(documentId, true), then the result
DemoProcessMark ==
  /\ proc.pc = "demoMark"
  /\ \/ /\ documents' = updateDocumentProcessed(documents, proc.documentId, TRUE)
        /\ proc' = [proc EXCEPT !.pc = "done", !.status = 200]
     \/ /\ proc' = [proc EXCEPT !.pc = "done", !.status = 500]
        /\ UNCHANGED documents
  /\ UNCHANGED <<vectorChunks, chatMessages, route, enh, pure, documentSeq, chunkSeq>>

NextProcess ==
  \/ NextStore
  \/ DemoProcessStart
  \/ DemoProcessStore
  \/ DemoProcessMark

SpecProcess == InitStore /\ [][NextProcess]_vars

(* C37: a document is marked processed only after its chunks have been stored:
   a run whose chunking yields no chunks, or whose embedding or storing fails,
   does not set the flag, so processed = true implies that at least one chunk of
   the document is stored. *)
C37_ProcessedOnlyAfterStored ==
  \A i \in 1..Len(documents) :
    documents[i].processed => OfDocument(vectorChunks, documents[i].id) # <<>>


\* the chunk gets one of the topic or entity boosts for the query
TriggersBoost(query, chunk) ==
  DemoProcessor_score(query, chunk)
    > DemoProcessor_keywordScore(DemoProcessor_queryWords(query), Lower(chunk.text))

(* C38: for every query, one with leading, trailing or repeated white space
   included, DemoProcessor.findRelevantChunks never returns a chunk whose text
   contains none of the query's words and that triggers no topic or entity
   boost. *)
C38_OnlyMatchingChunks ==
  pure.op = "DemoProcessor.findRelevantChunks" =>
    \A j \in 1..Len(pure.out) :
      \/ HasQueryWord(pure.in.query, pure.out[j])
      \/ TriggersBoost(pure.in.query, pure.out[j])


\* ---------------------------------------------------------------------------
\* Properties of the local embedding's features (SpecEmbed)
\* ---------------------------------------------------------------------------

\* the vectors a call of the local provider returned, one per text
LocalVectors ==
  IF pure.op = "DemoVectorService.generateEmbeddings" THEN pure.out.value
  ELSE IF pure.op = "DemoVectorService.generateQueryEmbedding" THEN <<pure.out.value>>
  ELSE <<>>

(* C39: the local embedding is never the zero vector: for every text, the
   empty string included, generateSingleEmbedding sets at least one strictly
   positive feature and no negative one, so the zero-magnitude branch of the
   normalisation is not taken, and the returned vector has 384 entries. *)
C39_NeverZeroVector ==
  \A i \in 1..Len(LocalVectors) :
    LET embedding == Features(pure.in.texts[i])
        vector == LocalVectors[i]
    IN  /\ \E d \in 1..Dimension : embedding[d] > 0
        /\ \A d \in 1..Dimension : embedding[d] >= 0
        /\ Len(vector) = Dimension
        /\ \E d \in 1..Dimension : vector[d] > 0
        /\ \A d \in 1..Dimension : vector[d] >= 0

\* the empty string was embedded: its one empty word hashes to dimension 0,
\* which holds the whole norm
C39_Witness ==
  /\ pure.op = "DemoVectorService.generateEmbeddings"
  /\ \E i \in 1..Len(pure.in.texts) :
       /\ pure.in.texts[i] = <<>>
       /\ pure.out.value[i][1] = EmbeddingScale
       /\ \A d \in 2..Dimension : pure.out.value[i][d] = 0

=============================================================================
